---- MODULE Spec2Model ----
(***************************************************************************)
(* The tracking front-end of SD-SLAM (src/src/Tracking.cc): the Tracker    *)
(* state machine, the shared Map, the motion model flag and the LocalMapper *)
(* input queue.  A frame is kept by the counts the tracker's thresholds    *)
(* read (keypoints, valid depths, matched slots by category); the results  *)
(* of the external collaborators (matcher, optimizer, image alignment,     *)
(* initializer, LocalMapper flags) are inputs drawn from small sets.       *)
(***************************************************************************)
EXTENDS Integers, Sequences, FiniteSets, TLC

VARIABLES
  mState,              \* Tracking::mState
  mLastProcessedState, \* Tracking::mLastProcessedState
  mSensor,             \* Tracking::mSensor (fixed at construction)
  usePattern,          \* Tracking::usePattern (Config::UsePattern)
  mpInitializer,       \* TRUE iff Tracking::mpInitializer is non-null
  mCurrentFrame,       \* Tracking::mCurrentFrame
  mLastFrame,          \* Tracking::mLastFrame
  mInitialFrame,       \* Tracking::mInitialFrame
  mnLastRelocFrameId,  \* Tracking::mnLastRelocFrameId
  mnLastKeyFrameId,    \* Tracking::mnLastKeyFrameId
  mpLastKeyFrame,      \* Tracking::mpLastKeyFrame
  mpReferenceKF,       \* Tracking::mpReferenceKF
  mmStarted,           \* motion_model_->Started()
  lastRelativePose_,   \* Tracking::lastRelativePose_
  FrameNextId,         \* Frame::nNextId
  KeyFrameNextId,      \* KeyFrame::nNextId
  mapKFs,              \* Map: keyframes, in insertion order
  mapMPs,              \* Map: number of map points
  lmQueue,             \* LocalMapper: queue of inserted keyframes
  unlinked,            \* keyframes holding map points that do not observe them
  mapLock,             \* Map::mMutexMapUpdate: "free" or its holder
  trackPC,             \* where the tracking thread is inside Track()
  nGrabs,              \* the part of the run's frames used so far
  nResets,             \* reset() calls of the driver so far in this run
  mpReplaced,          \* MapPoint::mpReplaced of each MapPoint (0: none)
  driver,              \* main(): where it is, and its locals
  obs                  \* what the last step did (history, read by the properties)

vars == <<mState, mLastProcessedState, mSensor, usePattern, mpInitializer,
          mCurrentFrame, mLastFrame, mInitialFrame, mnLastRelocFrameId,
          mnLastKeyFrameId, mpLastKeyFrame, mpReferenceKF, mmStarted,
          lastRelativePose_, FrameNextId, KeyFrameNextId, mapKFs, mapMPs,
          lmQueue, unlinked, mapLock, trackPC, nGrabs, nResets, mpReplaced,
          driver, obs>>

----------------------------------------------------------------------------
\* Bounds of the model

\* frames fed to the tracker in one run
MaxGrabs == 8

\* reset() calls of the driver in one run
MaxResets == 1

\* frames fed after a reset() of the driver
AfterReset == 2

\* Config::fps(), the camera frame rate read from the settings file
Fps == 3

----------------------------------------------------------------------------
\* Program constants

ThStereoInit == 500     \* StereoInitialization / PatternInitialization: N > 500
ThMonoKeys == 100       \* MonocularInitialization: mvKeys.size() > 100
ThIniMatches == 100     \* MonocularInitialization: nmatches < 100
ThIniTracked == 100     \* CreateInitialMapMonocular: TrackedMapPoints(1) < 100
ThMatches == 20         \* nmatches < 20
ThInliers == 10         \* nmatchesMap < 10, nGood < 10
ThLocalInliers == 15    \* TrackLocalMap: mnMatchesInliers < 15
ThEarlyLossKFs == 5     \* Track: KeyFramesInMap() <= 5
RelocWindow == 2        \* Track: mnId < mnLastRelocFrameId + 2
mMinFrames == 0
mMaxFrames == Fps

States == {"NO_IMAGES_YET", "NOT_INITIALIZED", "OK", "LOST"}
Sensors == {"MONOCULAR", "RGBD", "MONOCULAR_IMU_NEW"}
Poses == {"Zero", "I", "T"}

\* Eigen::Matrix4d product, on the three classes of matrices the tracker tells
\* apart: the zero matrix, the identity, any other matrix
PoseMul(a, b) ==
  IF a = "Zero" \/ b = "Zero" THEN "Zero"
  ELSE IF a = "I" THEN b
  ELSE IF b = "I" THEN a
  ELSE "T"

\* KeyFrame::GetPoseInverse: the inverse of the identity is the identity, the
\* inverse of any other rigid transform is another such transform
PoseInverse(a) == a

\* a null KeyFrame pointer
NoKF ==
  [uid |-> -1, id |-> -1, fid |-> -1, nth |-> 0, pose |-> "Zero", added |-> 0]

\* "mnId = nNextId++": the counter after an id was drawn from it
NextId(nNextId) == nNextId + 1

\* Frame::Frame: a fresh frame has a zero pose, no reference keyframe and
\* empty map point slots.  nth is the place of its image in the run (history).
NewFrame(id, n, nd) ==
  [mnId |-> id, nth |-> 0, N |-> n, nDepth |-> nd, pose |-> "Zero",
   refKF |-> NoKF, inMap |-> 0, inVO |-> 0, out |-> 0]

\* the frame the members hold before any image arrives
NoFrame == NewFrame(-1, 0, 0)

\* KeyFrame::KeyFrame(Frame&, Map*).  added counts the map points the
\* tracker then gives the keyframe by AddObservation and AddMapPoint.
NewKeyFrame(uid, F) ==
  [uid |-> uid, id |-> KeyFrameNextId, fid |-> F.mnId, nth |-> F.nth,
   pose |-> F.pose, added |-> 0]

\* the map point slots a new keyframe takes over from the frame it is made of
CopiedSlots(F) == F.inMap + F.inVO + F.out

Range(s) == {s[i] : i \in 1..Len(s)}

\* a tracker that gives a keyframe its new map points by AddMapPoint alone
UnobservingAdded(pKF, copied) ==
  IF copied + pKF.added > 0 THEN {pKF.uid} ELSE {}

\* the keyframe, if the tracker leaves it with map points that do not record
\* it as an observer.  The points the tracker adds are linked both ways
\* ("pKF->AddMapPoint(pMP, i); pMP->AddObservation(pKF, i);"); the slots the
\* keyframe copied from its frame get no AddObservation from the tracker.
Unobserving(pKF, copied) ==
  IF copied > 0 THEN {pKF.uid} ELSE {}

ObsNone ==
  [op |-> "None", entry |-> "None", first |-> "None", retried |-> FALSE,
   started0 |-> FALSE, bOKini |-> FALSE, lmRan |-> FALSE, inliers |-> 0,
   matches |-> 0, commit |-> "None", sysReset |-> FALSE, nKFsChk |-> -1,
   ret |-> "None", edges |-> {}, mapTouched |-> FALSE, held |-> "None",
   detected |-> FALSE, kf |-> "None", stopped |-> FALSE,
   wanted |-> FALSE, interruptBA |-> FALSE, firstOK |-> FALSE,
   refTries |-> 0, restarted |-> FALSE]

----------------------------------------------------------------------------
\* Inputs

\* frames an RGBD camera delivers: keypoints, and those of them with depth > 0.
\* Once the system is initialized no threshold reads the number of keypoints,
\* and one frame stands for all.
RGBDFrames ==
  IF mState \in {"OK", "LOST"}
    THEN { [N |-> 600, nDepth |-> 500] }
    ELSE { [N |-> 500, nDepth |-> 500], [N |-> 501, nDepth |-> 501],
           [N |-> 600, nDepth |-> 500] }

\* frames a monocular camera delivers (no depth)
MonoFrames ==
  IF mState \in {"OK", "LOST"}
    THEN { [N |-> 501, nDepth |-> 0] }
    ELSE { [N |-> 100, nDepth |-> 0], [N |-> 101, nDepth |-> 0],
           [N |-> 501, nDepth |-> 0] }

\* the configurations the tracker is built with: sensor and UsePattern
Configurations ==
  { <<"MONOCULAR", FALSE>>, <<"RGBD", FALSE>>, <<"MONOCULAR_IMU_NEW", TRUE>> }

\* the address of the k-th KeyFrame object allocated while the current frame
\* is processed
Alloc(k) == 2 * nGrabs + k

\* the changes of mState a step made
Edge(from, to) == IF from = to THEN {} ELSE {<<from, to>>}

----------------------------------------------------------------------------
\* Tracking::Tracking

Init ==
  /\ mState = "NO_IMAGES_YET"
  /\ mLastProcessedState = "NO_IMAGES_YET"
  /\ \E c \in Configurations : mSensor = c[1] /\ usePattern = c[2]
  /\ mpInitializer = FALSE
  /\ mCurrentFrame = NoFrame
  /\ mLastFrame = NoFrame
  /\ mInitialFrame = NoFrame
  /\ mnLastRelocFrameId = 0
  /\ mnLastKeyFrameId = 0
  /\ mpLastKeyFrame = NoKF
  /\ mpReferenceKF = NoKF
  /\ mmStarted = FALSE
  /\ lastRelativePose_ = "Zero"
  /\ FrameNextId = 0
  /\ KeyFrameNextId = 0
  /\ mapKFs = <<>>
  /\ mapMPs = 0
  /\ lmQueue = <<>>
  /\ unlinked = {}
  /\ mapLock = "free"
  /\ trackPC = "idle"
  /\ nGrabs = 0
  /\ nResets = 0
  /\ mpReplaced = <<>>
  /\ driver = "running"
  /\ obs = ObsNone

----------------------------------------------------------------------------
\* Track(), before the map mutex is taken: the first frame leaves NO_IMAGES_YET

\* the promotion without its test
TrackPrologAlways(s) == "NOT_INITIALIZED"

TrackProlog(s) == IF s = "NO_IMAGES_YET" THEN "NOT_INITIALIZED" ELSE s

\* the part of a Grab* call up to the point where Track() blocks on the mutex
Grab(f) ==
  /\ trackPC = "idle"
  /\ nGrabs < MaxGrabs
  /\ mCurrentFrame' = [NewFrame(FrameNextId, f.N, f.nDepth)
                         EXCEPT !.nth = nGrabs + 1]
  /\ FrameNextId' = NextId(FrameNextId)
  /\ nGrabs' = nGrabs + 1
  /\ mState' = TrackProlog(mState)
  /\ mLastProcessedState' = mState'
  /\ trackPC' = "lock"
  /\ obs' = [ObsNone EXCEPT !.op = "Grab", !.entry = mState,
                            !.edges = Edge(mState, mState'),
                            !.held = mapLock]
  /\ UNCHANGED <<mSensor, usePattern, mpReplaced, driver, mpInitializer,
                 mLastFrame, mInitialFrame,
                 mnLastRelocFrameId, mnLastKeyFrameId, mpLastKeyFrame,
                 mpReferenceKF, mmStarted, lastRelativePose_, KeyFrameNextId,
                 mapKFs, mapMPs, lmQueue, unlinked, mapLock, nResets>>

GrabImageRGBD ==
  /\ mSensor = "RGBD"
  /\ \E f \in RGBDFrames : Grab(f)

GrabImageMonocular ==
  /\ mSensor = "MONOCULAR"
  /\ \E f \in MonoFrames : Grab(f)

GrabImageFusion ==
  /\ mSensor = "MONOCULAR_IMU_NEW"
  /\ \E f \in MonoFrames : Grab(f)

\* Track() going on without the mutex
TrackNoLock ==
  /\ trackPC = "lock"
  /\ mapLock' = mapLock
  /\ trackPC' = "locked"
  /\ obs' = [ObsNone EXCEPT !.op = "Acquire", !.entry = mState, !.held = mapLock]
  /\ UNCHANGED <<mState, mLastProcessedState, mSensor, usePattern,
                 mpReplaced, driver, mpInitializer,
                 mCurrentFrame, mLastFrame, mInitialFrame, mnLastRelocFrameId,
                 mnLastKeyFrameId, mpLastKeyFrame, mpReferenceKF, mmStarted,
                 lastRelativePose_, FrameNextId, KeyFrameNextId, mapKFs, mapMPs,
                 lmQueue, unlinked, nGrabs, nResets>>

\* unique_lock<mutex> lock(mpMap->mMutexMapUpdate)
TrackAcquire ==
  /\ trackPC = "lock"
  /\ mapLock = "free"
  /\ mapLock' = "Tracking"
  /\ trackPC' = "locked"
  /\ obs' = [ObsNone EXCEPT !.op = "Acquire", !.entry = mState, !.held = mapLock]
  /\ UNCHANGED <<mState, mLastProcessedState, mSensor, usePattern,
                 mpReplaced, driver, mpInitializer,
                 mCurrentFrame, mLastFrame, mInitialFrame, mnLastRelocFrameId,
                 mnLastKeyFrameId, mpLastKeyFrame, mpReferenceKF, mmStarted,
                 lastRelativePose_, FrameNextId, KeyFrameNextId, mapKFs, mapMPs,
                 lmQueue, unlinked, nGrabs, nResets>>

\* Track() returns: the lock goes out of scope and Grab* returns the pose of
\* the current frame
GrabReturn(F) == F.pose

\* a Track call that returns without unlocking
TrackReturnLocked ==
  /\ mapLock' = mapLock
  /\ trackPC' = "idle"

TrackReturn ==
  /\ mapLock' = "free"
  /\ trackPC' = "idle"

----------------------------------------------------------------------------
\* Tracking::Reset

\* a Reset that forgets mpMap->clear()
ResetKeepMap ==
  /\ lmQueue' = <<>>
  /\ unlinked' = {}
  /\ mapKFs' = mapKFs
  /\ mapMPs' = mapMPs
  /\ KeyFrameNextId' = 0
  /\ FrameNextId' = 0
  /\ mState' = "NO_IMAGES_YET"
  /\ mpInitializer' = FALSE
  /\ lastRelativePose_' = "Zero"
  /\ mmStarted' = FALSE

\* a Reset that leaves the id counters as they are
ResetKeepIds ==
  /\ lmQueue' = <<>>
  /\ unlinked' = {}
  /\ mapKFs' = <<>>
  /\ mapMPs' = 0
  /\ KeyFrameNextId' = KeyFrameNextId
  /\ FrameNextId' = FrameNextId
  /\ mState' = "NO_IMAGES_YET"
  /\ mpInitializer' = FALSE
  /\ lastRelativePose_' = "Zero"
  /\ mmStarted' = FALSE

\* a Reset that leaves the tracker in the state it is in
ResetKeepState ==
  /\ lmQueue' = <<>>
  /\ unlinked' = {}
  /\ mapKFs' = <<>>
  /\ mapMPs' = 0
  /\ KeyFrameNextId' = 0
  /\ FrameNextId' = 0
  /\ mState' = mState
  /\ mpInitializer' = FALSE
  /\ lastRelativePose_' = "Zero"
  /\ mmStarted' = FALSE

\* a Reset that leaves the motion model as it is
ResetWarm ==
  /\ lmQueue' = <<>>
  /\ unlinked' = {}
  /\ mapKFs' = <<>>
  /\ mapMPs' = 0
  /\ KeyFrameNextId' = 0
  /\ FrameNextId' = 0
  /\ mState' = "NO_IMAGES_YET"
  /\ mpInitializer' = FALSE
  /\ lastRelativePose_' = "Zero"
  /\ mmStarted' = mmStarted

Reset ==
  /\ lmQueue' = <<>>            \* mpLocalMapper->RequestReset()
  /\ unlinked' = {}            \* the keyframes go with the map
  /\ mapKFs' = <<>>             \* mpMap->clear()
  /\ mapMPs' = 0
  /\ KeyFrameNextId' = 0
  /\ FrameNextId' = 0
  /\ mState' = "NO_IMAGES_YET"
  /\ mpInitializer' = FALSE
  /\ lastRelativePose_' = "Zero"
  /\ mmStarted' = FALSE         \* motion_model_->Restart()

\* System::Reset, called by Track on an early loss
SystemReset == Reset

\* reset() called by the driver between two frames
DriverReset ==
  /\ trackPC = "idle"
  /\ nResets < MaxResets
  /\ nResets' = nResets + 1
  /\ nGrabs' = IF nGrabs < MaxGrabs - AfterReset THEN MaxGrabs - AfterReset
                ELSE nGrabs
  /\ Reset
  /\ obs' = [ObsNone EXCEPT !.op = "Reset", !.entry = mState,
                            !.edges = Edge(mState, "NO_IMAGES_YET"),
                            !.nKFsChk = Len(mapKFs),
                            !.mapTouched = TRUE, !.held = mapLock]
  /\ UNCHANGED <<mLastProcessedState, mSensor, usePattern, mpReplaced, driver,
                 mCurrentFrame,
                 mLastFrame, mInitialFrame, mnLastRelocFrameId,
                 mnLastKeyFrameId, mpLastKeyFrame, mpReferenceKF, mapLock,
                 trackPC>>

----------------------------------------------------------------------------
\* Track(): "Store relative pose", the last statement before Track returns

StoreRelativePose(F) ==
  IF F.pose # "Zero"
    THEN PoseMul(F.pose, PoseInverse(F.refKF.pose))
    ELSE lastRelativePose_

----------------------------------------------------------------------------
\* Tracking::StereoInitialization, and Track() around it

StereoInitReady(F) == F.N > ThStereoInit

\* a loop that forgets the test z > 0
StereoMapPointsAll(F) == F.N

\* the MapPoints the loop over the keypoints creates: one per keypoint with
\* z > 0
StereoMapPoints(F) == F.nDepth

StereoInitialization ==
  /\ trackPC = "locked"
  /\ mState = "NOT_INITIALIZED"
  /\ mSensor = "RGBD"
  /\ IF StereoInitReady(mCurrentFrame)
       THEN LET posed == [mCurrentFrame EXCEPT !.pose = "I"]
                \* one MapPoint per keypoint with z > 0, stored in its slot
                pKFini == [NewKeyFrame(Alloc(0), posed)
                             EXCEPT !.added = StereoMapPoints(posed)]
                F == [posed EXCEPT !.inMap = StereoMapPoints(posed),
                                   !.refKF = pKFini]
            IN /\ mCurrentFrame' = F
               /\ KeyFrameNextId' = KeyFrameNextId + 1
               /\ mapKFs' = Append(mapKFs, pKFini)
               /\ mapMPs' = mapMPs + StereoMapPoints(posed)
               /\ lmQueue' = Append(lmQueue, pKFini)
               /\ unlinked' = unlinked
                               \cup Unobserving(pKFini,
                                                CopiedSlots(mCurrentFrame))
               /\ mnLastKeyFrameId' = posed.mnId
               /\ mpLastKeyFrame' = pKFini
               /\ mpReferenceKF' = pKFini
               /\ mLastFrame' = F
               /\ mState' = "OK"
               /\ lastRelativePose_' = StoreRelativePose(F)
               /\ obs' = [ObsNone EXCEPT !.op = "StereoInit",
                                         !.entry = mState,
                                         !.edges = Edge(mState, "OK"),
                                         !.ret = GrabReturn(F),
                                         !.mapTouched = TRUE,
                                         !.held = mapLock]
       ELSE /\ obs' = [ObsNone EXCEPT !.op = "StereoInit",
                                      !.entry = mState,
                                      !.ret = GrabReturn(mCurrentFrame),
                                      !.held = mapLock]
            /\ UNCHANGED <<mCurrentFrame, KeyFrameNextId, mapKFs, mapMPs,
                           lmQueue, unlinked, mnLastKeyFrameId, mpLastKeyFrame,
                           mpReferenceKF, mLastFrame, mState,
                           lastRelativePose_>>
  /\ TrackReturn
  /\ UNCHANGED <<mLastProcessedState, mSensor, usePattern, mpReplaced, driver,
                 mpInitializer,
                 mInitialFrame, mnLastRelocFrameId, mmStarted, FrameNextId,
                 nGrabs, nResets>>

----------------------------------------------------------------------------
\* Tracking::PatternInitialization, and Track() around it

\* numbers of points the pattern detector reports
PatternPoints == {1, 4}

\* a pattern bootstrap that does not ask for keypoints
PatternInitReadyAny(F, detected) == detected

\* "if (mCurrentFrame.N <= 500) return;", then mpPatternDetector.Detect
PatternInitReady(F, detected) == F.N > ThStereoInit /\ detected

PatternInitialization ==
  /\ trackPC = "locked"
  /\ mState = "NOT_INITIALIZED"
  /\ mSensor # "RGBD"
  /\ usePattern
  /\ \E detected \in BOOLEAN, nPat \in PatternPoints :
       IF PatternInitReady(mCurrentFrame, detected)
         THEN LET posed == [mCurrentFrame EXCEPT !.pose = "I"]
                  pKFini == [NewKeyFrame(Alloc(0), posed)
                               EXCEPT !.added = nPat]
                  F == [posed EXCEPT !.inMap = nPat, !.refKF = pKFini]
              IN /\ mCurrentFrame' = F
                 /\ KeyFrameNextId' = KeyFrameNextId + 1
                 /\ mapKFs' = Append(mapKFs, pKFini)
                 /\ mapMPs' = mapMPs + nPat
                 /\ lmQueue' = Append(lmQueue, pKFini)
                 /\ unlinked' = unlinked
                                 \cup Unobserving(pKFini,
                                                  CopiedSlots(mCurrentFrame))
                 /\ mnLastKeyFrameId' = posed.mnId
                 /\ mpLastKeyFrame' = pKFini
                 /\ mpReferenceKF' = pKFini
                 /\ mLastFrame' = F
                 /\ mState' = "OK"
                 /\ lastRelativePose_' = StoreRelativePose(F)
                 /\ obs' = [ObsNone EXCEPT !.op = "PatternInit",
                                           !.entry = mState,
                                           !.edges = Edge(mState, "OK"),
                                           !.ret = GrabReturn(F),
                                           !.mapTouched = TRUE,
                                           !.detected = detected,
                                           !.held = mapLock]
         ELSE /\ obs' = [ObsNone EXCEPT !.op = "PatternInit",
                                        !.entry = mState,
                                        !.detected = detected,
                                        !.ret = GrabReturn(mCurrentFrame),
                                        !.held = mapLock]
              /\ UNCHANGED <<mCurrentFrame, KeyFrameNextId, mapKFs, mapMPs,
                             lmQueue, unlinked, mnLastKeyFrameId, mpLastKeyFrame,
                             mpReferenceKF, mLastFrame, mState,
                             lastRelativePose_>>
  /\ TrackReturn
  /\ UNCHANGED <<mLastProcessedState, mSensor, usePattern, mpReplaced, driver,
                 mpInitializer,
                 mInitialFrame, mnLastRelocFrameId, mmStarted, FrameNextId,
                 nGrabs, nResets>>

----------------------------------------------------------------------------
\* Tracking::MonocularInitialization and CreateInitialMapMonocular, and
\* Track() around them

\* results of ORBmatcher::SearchForInitialization
IniMatches == {99, 100}

\* numbers of triangulated matches the Initializer leaves; each becomes a
\* MapPoint seen by both keyframes, so it is what TrackedMapPoints(1) counts
IniTriangulated == {99, 100}

\* values of KeyFrame::ComputeSceneMedianDepth
MedianDepths == {-1, 0, 1}

\* the test without its second half
WrongInitializationDepthOnly(medianDepth, nTracked) == medianDepth < 0

\* "Wrong initialization, reseting..."
WrongInitialization(medianDepth, nTracked) ==
  medianDepth < 0 \/ nTracked < ThIniTracked

\* a frame of the bootstrap that ends without a map: only the initializer
\* may have changed
MonoInitPending(hasInitializer) ==
  /\ mpInitializer' = hasInitializer
  /\ obs' = [ObsNone EXCEPT !.op = "MonoInit", !.entry = mState,
                            !.ret = GrabReturn(mCurrentFrame),
                            !.held = mapLock]
  /\ UNCHANGED <<mState, mCurrentFrame, mLastFrame, mInitialFrame,
                 mnLastKeyFrameId, mpLastKeyFrame, mpReferenceKF, mmStarted,
                 lastRelativePose_, FrameNextId, KeyFrameNextId, mapKFs,
                 mapMPs, lmQueue,
                 unlinked>>

\* the first frame of the bootstrap is stored
MonoInitStageA ==
  /\ mInitialFrame' = mCurrentFrame
  /\ mLastFrame' = mCurrentFrame
  /\ mpInitializer' = TRUE
  /\ obs' = [ObsNone EXCEPT !.op = "MonoInit", !.entry = mState,
                            !.ret = GrabReturn(mCurrentFrame),
                            !.held = mapLock]
  /\ UNCHANGED <<mState, mCurrentFrame, mnLastKeyFrameId, mpLastKeyFrame,
                 mpReferenceKF, mmStarted, lastRelativePose_, FrameNextId,
                 KeyFrameNextId, mapKFs, mapMPs, lmQueue,
                 unlinked>>

\* the keyframes in the order "InsertKeyFrame(pKFcur); InsertKeyFrame(pKFini);"
InsertedSwapped(pKFini, pKFcur) == <<pKFcur, pKFini>>

\* "mpLocalMapper->InsertKeyFrame(pKFini);
\*  mpLocalMapper->InsertKeyFrame(pKFcur);"
Inserted(pKFini, pKFcur) == <<pKFini, pKFcur>>

CreateInitialMapMonocular(nTri, medianDepth) ==
  LET ini == [mInitialFrame EXCEPT !.pose = "I"]
      cur == [mCurrentFrame EXCEPT !.pose = "T"]
      pKFini == [NewKeyFrame(Alloc(0), ini) EXCEPT !.added = nTri]
      pKFcur == [NewKeyFrame(Alloc(1), cur) EXCEPT !.id = KeyFrameNextId + 1,
                                                   !.added = nTri]
      filled == [cur EXCEPT !.inMap = nTri]
  IN IF WrongInitialization(medianDepth, nTri)
       THEN \* the keyframes and points just added go with the map
            /\ Reset
            /\ mInitialFrame' = ini
            /\ mCurrentFrame' = filled
            /\ obs' = [ObsNone EXCEPT !.op = "MonoInit", !.entry = mState,
                                      !.edges = Edge(mState, "NO_IMAGES_YET"),
                                      !.ret = GrabReturn(filled),
                                      !.mapTouched = TRUE,
                                      !.held = mapLock]
            /\ UNCHANGED <<mLastFrame, mnLastKeyFrameId, mpLastKeyFrame,
                           mpReferenceKF>>
       ELSE LET F == [filled EXCEPT !.pose = pKFcur.pose, !.refKF = pKFcur]
            IN /\ mInitialFrame' = ini
               /\ mCurrentFrame' = F
               /\ KeyFrameNextId' = KeyFrameNextId + 2
               /\ mapKFs' = mapKFs \o <<pKFini, pKFcur>>
               /\ mapMPs' = mapMPs + nTri
               /\ lmQueue' = lmQueue \o Inserted(pKFini, pKFcur)
               /\ unlinked' = unlinked
                               \cup Unobserving(pKFini,
                                                CopiedSlots(mInitialFrame))
                               \cup Unobserving(pKFcur,
                                                CopiedSlots(mCurrentFrame))
               /\ mnLastKeyFrameId' = F.mnId
               /\ mpLastKeyFrame' = pKFcur
               /\ mpReferenceKF' = pKFcur
               /\ mLastFrame' = F
               /\ mState' = "OK"
               /\ lastRelativePose_' = StoreRelativePose(F)
               /\ obs' = [ObsNone EXCEPT !.op = "MonoInit", !.entry = mState,
                                         !.edges = Edge(mState, "OK"),
                                         !.ret = GrabReturn(F),
                                         !.mapTouched = TRUE,
                                         !.held = mapLock]
               /\ UNCHANGED <<mpInitializer, mmStarted, FrameNextId>>

MonocularInitialization ==
  /\ trackPC = "locked"
  /\ mState = "NOT_INITIALIZED"
  /\ mSensor # "RGBD"
  /\ ~usePattern
  /\ IF ~mpInitializer
       THEN IF mCurrentFrame.N > ThMonoKeys
              THEN MonoInitStageA
              ELSE MonoInitPending(FALSE)
       ELSE IF mCurrentFrame.N <= ThMonoKeys
              THEN MonoInitPending(FALSE)
              ELSE \E nmatches \in IniMatches :
                     IF nmatches < ThIniMatches
                       THEN MonoInitPending(FALSE)
                       ELSE \E initialized \in BOOLEAN :
                              IF ~initialized
                                THEN MonoInitPending(TRUE)
                                ELSE \E nTri \in IniTriangulated,
                                        md \in MedianDepths :
                                       CreateInitialMapMonocular(nTri, md)
  /\ TrackReturn
  /\ UNCHANGED <<mLastProcessedState, mSensor, usePattern, mpReplaced, driver,
                 mnLastRelocFrameId, nGrabs, nResets>>

----------------------------------------------------------------------------
\* Initial pose estimation: TrackReferenceKeyFrame, TrackWithMotionModel /
\* TrackWithNewIMUModel, Relocalization

\* what the matcher and the optimizer give for one tracking attempt: n1
\* matches in the first projection search, n2 in the wider search (run only
\* when n1 is too small); after motion-only BA inMap matches are inliers
\* with >= 1 observation and out matches are outliers
Attempts ==
  { a \in [n1 : {19, 20}, n2 : {19, 20}, inMap : {9, 10}, out : {1}] :
      a.n1 >= ThMatches => a.n2 = a.n1 }

\* matching, PoseOptimization and "Discard outliers", shared by
\* TrackReferenceKeyFrame, TrackWithMotionModel and TrackVisual.  A failed
\* image alignment puts the seed back, and the optimizer overwrites the pose
\* whenever matching succeeds.
\* the same without the wider search
MatchAndOptimizeOnce(F, a, seed) ==
  LET nmatches == a.n1
  IN IF nmatches < ThMatches
       THEN [ok |-> FALSE, wide |-> FALSE,
             F |-> [F EXCEPT !.pose = seed, !.inMap = nmatches,
                             !.inVO = 0, !.out = 0]]
       ELSE [ok |-> ~(a.inMap < ThInliers), wide |-> FALSE,
             F |-> [F EXCEPT !.pose = "T", !.inMap = a.inMap,
                             !.inVO = nmatches - a.inMap - a.out,
                             !.out = 0]]

MatchAndOptimize(F, a, seed) ==
  LET wide == a.n1 < ThMatches
      nmatches == IF wide THEN a.n2 ELSE a.n1
  IN IF nmatches < ThMatches
       THEN [ok |-> FALSE, wide |-> wide,
             F |-> [F EXCEPT !.pose = seed, !.inMap = nmatches,
                             !.inVO = 0, !.out = 0]]
       ELSE [ok |-> ~(a.inMap < ThInliers), wide |-> wide,
             F |-> [F EXCEPT !.pose = "T", !.inMap = a.inMap,
                             !.inVO = nmatches - a.inMap - a.out,
                             !.out = 0]]

\* the seed is the pose of the last frame
TrackReferenceKeyFrame(F, a, last) == MatchAndOptimize(F, a, last.pose)

\* Tracking::UpdateLastFrame: the pose of the last frame, from its reference
\* keyframe and the stored relative pose
UpdateLastFrame(last) ==
  [last EXCEPT !.pose = PoseMul(lastRelativePose_, last.refKF.pose)]

\* EKF::Predict
MotionPredict(pose) == IF pose = "Zero" THEN "Zero" ELSE "T"

\* TrackWithMotionModel, and TrackWithNewIMUModel with TrackVisual: the seed
\* is the pose the motion model predicts from the updated last frame
TrackWithMotionModel(F, a, last) ==
  MatchAndOptimize(F, a, MotionPredict(last.pose))

\* outcomes of the scan over the candidates: cand = 0 when every keyframe
\* is rejected, else the place (from the most recent) of the accepted one
RelocOutcomes ==
  { r \in [cand : 0..Len(mapKFs), inVO : {1}, out : {0, 1}, left : {0, 19}] :
      (r.cand = 0 => r.out = 0) /\ (r.cand # 0 => r.left = 0) }

\* a Relocalization that forgets "mnLastRelocFrameId = mCurrentFrame.mnId"
RelocalizationUnmarked(F, r) ==
  IF r.cand = 0
    THEN [ok |-> FALSE, reloc |-> mnLastRelocFrameId,
          F |-> [F EXCEPT !.pose = IF mapKFs = <<>> THEN F.pose
                                   ELSE mapKFs[1].pose,
                          !.inMap = r.left, !.inVO = 0, !.out = 0]]
    ELSE [ok |-> TRUE, reloc |-> mnLastRelocFrameId,
          F |-> [F EXCEPT !.pose = "T",
                          !.inMap = ThMatches - r.out - r.inVO,
                          !.inVO = r.inVO, !.out = r.out]]

Relocalization(F, r) ==
  IF r.cand = 0
    THEN [ok |-> FALSE, reloc |-> mnLastRelocFrameId,
          F |-> [F EXCEPT !.pose = IF mapKFs = <<>> THEN F.pose
                                   ELSE mapKFs[1].pose,
                          !.inMap = r.left, !.inVO = 0, !.out = 0]]
    ELSE [ok |-> TRUE, reloc |-> F.mnId,
          F |-> [F EXCEPT !.pose = "T",
                          !.inMap = ThMatches - r.out - r.inVO,
                          !.inVO = r.inVO, !.out = r.out]]

\* the window after a relocalization one frame longer
UseReferenceKFWide(started, fid, relocId) ==
  ~started \/ fid <= relocId + RelocWindow

\* Track(): which tracker gets the first attempt in state OK
UseReferenceKF(started, fid, relocId) ==
  ~started \/ fid < relocId + RelocWindow

----------------------------------------------------------------------------
\* Tracking::TrackLocalMap

\* the keyframe that may share most points with the current frame: the
\* newest of the map
Voters ==
  IF mapKFs = <<>> THEN {} ELSE {mapKFs[Len(mapKFs)]}

\* what UpdateLocalKeyFrames, SearchLocalPoints and PoseOptimization give:
\* the voter sharing most points (NoKF when there is none) and the slots of
\* the frame by category
LocalOutcomes ==
  [ref : Voters \cup {NoKF}, inMap : {14, 15, 16}, inVO : {1},
   out : {0, 1}]

\* the inlier test of TrackLocalMap off by one
TrackLocalMapStrict(F, l) ==
  [ok |-> ~(l.inMap <= ThLocalInliers),
   mnMatchesInliers |-> l.inMap,
   ref |-> IF l.ref = NoKF THEN mpReferenceKF ELSE l.ref,
   F |-> [F EXCEPT !.inMap = l.inMap, !.inVO = l.inVO, !.out = l.out,
                   !.refKF = IF l.ref = NoKF THEN F.refKF ELSE l.ref]]

TrackLocalMap(F, l) ==
  [ok |-> ~(l.inMap < ThLocalInliers),
   mnMatchesInliers |-> l.inMap,
   ref |-> IF l.ref = NoKF THEN mpReferenceKF ELSE l.ref,
   F |-> [F EXCEPT !.inMap = l.inMap, !.inVO = l.inVO, !.out = l.out,
                   !.refKF = IF l.ref = NoKF THEN F.refKF ELSE l.ref]]

----------------------------------------------------------------------------
\* Tracking::NeedNewKeyFrame

\* what the LocalMapper answers: isStopped(), stopRequested(),
\* AcceptKeyFrames()
MapperFlags ==
  { [stopped |-> TRUE, stopReq |-> FALSE, idle |-> FALSE],
    [stopped |-> FALSE, stopReq |-> TRUE, idle |-> FALSE],
    [stopped |-> FALSE, stopReq |-> FALSE, idle |-> TRUE],
    [stopped |-> FALSE, stopReq |-> FALSE, idle |-> FALSE] }

\* mpReferenceKF->TrackedMapPoints(nMinObs)
RefMatches == {10, 100}

\* close keypoints (0 < depth < mThDepth) of the frame: tracked and not
CloseCounts ==
  IF mSensor = "RGBD"
    THEN { [tracked |-> 100, non |-> 70], [tracked |-> 99, non |-> 71] }
    ELSE { [tracked |-> 0, non |-> 0] }

\* thRefRatio, in hundredths
ThRefRatio(nKFs) ==
  IF mSensor # "RGBD" THEN 90 ELSE IF nKFs < 2 THEN 40 ELSE 75

\* NeedNewKeyFrame with "mnMatchesInliers >= 15" in c2
NeedNewKeyFrameLoose(F, relocId, inliers, m, nRefMatches, c) ==
  LET nKFs == Len(mapKFs)
      bNeedToInsertClose == c.tracked < 100 /\ c.non > 70
      c1a == F.mnId >= mnLastKeyFrameId + mMaxFrames
      c1b == F.mnId >= mnLastKeyFrameId + mMinFrames /\ m.idle
      c1c == mSensor = "RGBD"
             /\ (inliers * 100 < nRefMatches * 25 \/ bNeedToInsertClose)
      c2 == (inliers * 100 < nRefMatches * ThRefRatio(nKFs)
             \/ bNeedToInsertClose)
            /\ inliers >= 15
  IN IF m.stopped \/ m.stopReq THEN FALSE
     ELSE IF F.mnId < relocId + mMaxFrames /\ nKFs > mMaxFrames THEN FALSE
     ELSE IF (c1a \/ c1b \/ c1c) /\ c2
       THEN IF m.idle THEN TRUE
            ELSE IF mSensor = "RGBD" THEN Len(lmQueue) < 3 ELSE FALSE
       ELSE FALSE

\* NeedNewKeyFrame with ">" in c1a
NeedNewKeyFrameLate(F, relocId, inliers, m, nRefMatches, c) ==
  LET nKFs == Len(mapKFs)
      bNeedToInsertClose == c.tracked < 100 /\ c.non > 70
      c1a == F.mnId > mnLastKeyFrameId + mMaxFrames
      c1b == F.mnId >= mnLastKeyFrameId + mMinFrames /\ m.idle
      c1c == mSensor = "RGBD"
             /\ (inliers * 100 < nRefMatches * 25 \/ bNeedToInsertClose)
      c2 == (inliers * 100 < nRefMatches * ThRefRatio(nKFs)
             \/ bNeedToInsertClose)
            /\ inliers > 15
  IN IF m.stopped \/ m.stopReq THEN FALSE
     ELSE IF F.mnId < relocId + mMaxFrames /\ nKFs > mMaxFrames THEN FALSE
     ELSE IF (c1a \/ c1b \/ c1c) /\ c2
       THEN IF m.idle THEN TRUE
            ELSE IF mSensor = "RGBD" THEN Len(lmQueue) < 3 ELSE FALSE
       ELSE FALSE

\* NeedNewKeyFrame that does not ask the LocalMapper whether it is stopped
NeedNewKeyFrameNoStop(F, relocId, inliers, m, nRefMatches, c) ==
  LET nKFs == Len(mapKFs)
      bNeedToInsertClose == c.tracked < 100 /\ c.non > 70
      c1a == F.mnId >= mnLastKeyFrameId + mMaxFrames
      c1b == F.mnId >= mnLastKeyFrameId + mMinFrames /\ m.idle
      c1c == mSensor = "RGBD"
             /\ (inliers * 100 < nRefMatches * 25 \/ bNeedToInsertClose)
      c2 == (inliers * 100 < nRefMatches * ThRefRatio(nKFs)
             \/ bNeedToInsertClose)
            /\ inliers > 15
  IN IF F.mnId < relocId + mMaxFrames /\ nKFs > mMaxFrames THEN FALSE
     ELSE IF (c1a \/ c1b \/ c1c) /\ c2
       THEN IF m.idle THEN TRUE
            ELSE IF mSensor = "RGBD" THEN Len(lmQueue) < 3 ELSE FALSE
       ELSE FALSE

\* the test after a relocalization with >= on the keyframes of the Map
NeedNewKeyFrameAfterReloc(F, relocId, inliers, m, nRefMatches, c) ==
  LET nKFs == Len(mapKFs)
      bNeedToInsertClose == c.tracked < 100 /\ c.non > 70
      c1a == F.mnId >= mnLastKeyFrameId + mMaxFrames
      c1b == F.mnId >= mnLastKeyFrameId + mMinFrames /\ m.idle
      c1c == mSensor = "RGBD"
             /\ (inliers * 100 < nRefMatches * 25 \/ bNeedToInsertClose)
      c2 == (inliers * 100 < nRefMatches * ThRefRatio(nKFs)
             \/ bNeedToInsertClose)
            /\ inliers > 15
  IN IF m.stopped \/ m.stopReq THEN FALSE
     ELSE IF F.mnId < relocId + mMaxFrames /\ nKFs >= mMaxFrames THEN FALSE
     ELSE IF (c1a \/ c1b \/ c1c) /\ c2
       THEN IF m.idle THEN TRUE
            ELSE IF mSensor = "RGBD" THEN Len(lmQueue) < 3 ELSE FALSE
       ELSE FALSE

NeedNewKeyFrame(F, relocId, inliers, m, nRefMatches, c) ==
  LET nKFs == Len(mapKFs)
      bNeedToInsertClose == c.tracked < 100 /\ c.non > 70
      c1a == F.mnId >= mnLastKeyFrameId + mMaxFrames
      c1b == F.mnId >= mnLastKeyFrameId + mMinFrames /\ m.idle
      c1c == mSensor = "RGBD"
             /\ (inliers * 100 < nRefMatches * 25 \/ bNeedToInsertClose)
      c2 == (inliers * 100 < nRefMatches * ThRefRatio(nKFs)
             \/ bNeedToInsertClose)
            /\ inliers > 15
  IN IF m.stopped \/ m.stopReq THEN FALSE
     ELSE IF F.mnId < relocId + mMaxFrames /\ nKFs > mMaxFrames THEN FALSE
     ELSE IF (c1a \/ c1b \/ c1c) /\ c2
       THEN IF m.idle THEN TRUE
            ELSE IF mSensor = "RGBD" THEN Len(lmQueue) < 3 ELSE FALSE
       ELSE FALSE

\* an InterruptBA for every wanted keyframe, the LocalMapper idle or not
InterruptsBAIdleToo(F, relocId, inliers, m, nRefMatches, c) ==
  LET nKFs == Len(mapKFs)
      bNeedToInsertClose == c.tracked < 100 /\ c.non > 70
      c1a == F.mnId >= mnLastKeyFrameId + mMaxFrames
      c1b == F.mnId >= mnLastKeyFrameId + mMinFrames /\ m.idle
      c1c == mSensor = "RGBD"
             /\ (inliers * 100 < nRefMatches * 25 \/ bNeedToInsertClose)
      c2 == (inliers * 100 < nRefMatches * ThRefRatio(nKFs)
             \/ bNeedToInsertClose)
            /\ inliers > 15
  IN IF m.stopped \/ m.stopReq THEN FALSE
     ELSE IF F.mnId < relocId + mMaxFrames /\ nKFs > mMaxFrames THEN FALSE
     ELSE IF (c1a \/ c1b \/ c1c) /\ c2 THEN TRUE
     ELSE FALSE

\* NeedNewKeyFrame: whether it calls mpLocalMapper->InterruptBA()
InterruptsBA(F, relocId, inliers, m, nRefMatches, c) ==
  LET nKFs == Len(mapKFs)
      bNeedToInsertClose == c.tracked < 100 /\ c.non > 70
      c1a == F.mnId >= mnLastKeyFrameId + mMaxFrames
      c1b == F.mnId >= mnLastKeyFrameId + mMinFrames /\ m.idle
      c1c == mSensor = "RGBD"
             /\ (inliers * 100 < nRefMatches * 25 \/ bNeedToInsertClose)
      c2 == (inliers * 100 < nRefMatches * ThRefRatio(nKFs)
             \/ bNeedToInsertClose)
            /\ inliers > 15
  IN IF m.stopped \/ m.stopReq THEN FALSE
     ELSE IF F.mnId < relocId + mMaxFrames /\ nKFs > mMaxFrames THEN FALSE
     ELSE IF (c1a \/ c1b \/ c1c) /\ c2 THEN ~m.idle
     ELSE FALSE

\* MapPoints CreateNewKeyFrame adds for an RGBD frame (none for the others)
NewPoints == IF mSensor = "RGBD" THEN {100} ELSE {0}

----------------------------------------------------------------------------
\* Track() for an initialized system

\* a restart only when the retry fails too
RestartIfRetryFails(bOK) == ~bOK

\* "bOK = TrackReferenceKeyFrame(); motion_model_->Restart();": whether the
\* motion model is restarted after the retry that gave bOK
RestartAfterRetry(bOK) == TRUE

\* the first part of Track(): every way the initial pose estimation can end
\* for the current frame.  Each result holds the frame, the last frame, the
\* motion model flag, mnLastRelocFrameId and the path taken.
InitialPose ==
  IF mState = "OK"
    THEN IF UseReferenceKF(mmStarted, mCurrentFrame.mnId, mnLastRelocFrameId)
           THEN { [ok |-> x.ok, F |-> x.F, last |-> mLastFrame,
                   mm |-> mmStarted, reloc |-> mnLastRelocFrameId,
                   first |-> "RefKF", retried |-> FALSE,
                   firstOK |-> x.ok, refTries |-> 1, restart |-> FALSE] :
                  x \in { TrackReferenceKeyFrame(mCurrentFrame, a, mLastFrame) :
                          a \in Attempts } }
           ELSE LET last == UpdateLastFrame(mLastFrame)
                IN UNION {
                     LET x == TrackWithMotionModel(mCurrentFrame, a, last)
                     IN IF x.ok
                          THEN { [ok |-> TRUE, F |-> x.F, last |-> last,
                                  mm |-> mmStarted,
                                  reloc |-> mnLastRelocFrameId,
                                  first |-> "MotionModel",
                                  retried |-> FALSE, firstOK |-> TRUE,
                                  refTries |-> 0, restart |-> FALSE] }
                          ELSE \* retry, then motion_model_->Restart()
                               { [ok |-> y.ok, F |-> y.F, last |-> last,
                                  mm |-> IF RestartAfterRetry(y.ok) THEN FALSE
                                         ELSE mmStarted,
                                  reloc |-> mnLastRelocFrameId,
                                  first |-> "MotionModel",
                                  retried |-> TRUE, firstOK |-> FALSE,
                                  refTries |-> 1,
                                  restart |-> RestartAfterRetry(y.ok)] :
                                 y \in { TrackReferenceKeyFrame(x.F, b, last) :
                                         b \in Attempts } } :
                     a \in Attempts }
    ELSE \* Relocalization, then motion_model_->Restart()
         { [ok |-> x.ok, F |-> x.F, last |-> mLastFrame, mm |-> FALSE,
            reloc |-> x.reloc, first |-> "Reloc", retried |-> FALSE,
            firstOK |-> x.ok, refTries |-> 0, restart |-> TRUE] :
           x \in { Relocalization(mCurrentFrame, r) : r \in RelocOutcomes } }

\* "if (bOK) mState = OK; else mState = LOST;"
CommitState(bOK) == IF bOK THEN "OK" ELSE "LOST"

\* an early-loss test for the keyframes of the bootstrap alone
EarlyLossBootstrapOnly(state, nKFs) == state = "LOST" /\ nKFs <= 2

\* the early-loss test with < in place of <=
EarlyLossStrict(state, nKFs) == state = "LOST" /\ nKFs < ThEarlyLossKFs

\* "Reset if the camera get lost soon after initialization"
EarlyLoss(state, nKFs) == state = "LOST" /\ nKFs <= ThEarlyLossKFs

\* a Track() that leaves the outliers in their slots
KeepOutliers(F) == F

\* "if (mCurrentFrame.mvpMapPoints[i] && mCurrentFrame.mvbOutlier[i])
\*    mCurrentFrame.mvpMapPoints[i] = NULL;"
DiscardOutliers(F) == [F EXCEPT !.out = 0]

\* the frame is tracked: motion model, VO matches, keyframe decision,
\* outliers, last frame, relative pose
TrackSucceeded(p, F, ref, inliers, o, create, nNew) ==
  LET clean == [F EXCEPT !.inVO = 0]
      pKF == [NewKeyFrame(Alloc(0), clean) EXCEPT !.added = nNew]
      withKF == IF create
                  THEN [clean EXCEPT !.refKF = pKF, !.inMap = @ + nNew]
                  ELSE clean
      kept == DiscardOutliers(withKF)
      last == IF kept.refKF = NoKF
                THEN [kept EXCEPT !.refKF = IF create THEN pKF ELSE ref]
                ELSE kept
  IN /\ mState' = "OK"
     /\ mmStarted' = (p.last.pose # "Zero")
     /\ mnLastRelocFrameId' = p.reloc
     /\ mCurrentFrame' = last
     /\ mLastFrame' = last
     /\ mpReferenceKF' = IF create THEN pKF ELSE ref
     /\ mpLastKeyFrame' = IF create THEN pKF ELSE mpLastKeyFrame
     /\ mnLastKeyFrameId' = IF create THEN F.mnId ELSE mnLastKeyFrameId
     /\ KeyFrameNextId' = IF create THEN NextId(KeyFrameNextId)
                          ELSE KeyFrameNextId
     /\ lmQueue' = IF create THEN Append(lmQueue, pKF) ELSE lmQueue
     /\ unlinked' = IF create
                      THEN unlinked \cup Unobserving(pKF, CopiedSlots(clean))
                      ELSE unlinked
     /\ mapMPs' = IF create THEN mapMPs + nNew ELSE mapMPs
     /\ lastRelativePose_' = StoreRelativePose(last)
     /\ obs' = [o EXCEPT !.commit = "OK",
                         !.edges = Edge(mState, "OK"),
                         !.ret = GrabReturn(last),
                         !.mapTouched = create /\ nNew > 0]
     /\ UNCHANGED <<mpInitializer, FrameNextId, mapKFs>>

\* a tracker that makes a keyframe of a lost frame
TrackFailedWithKeyFrame(p, F, ref, o) ==
  LET pKF == NewKeyFrame(Alloc(0), F)
      last == [F EXCEPT !.refKF = pKF]
  IN /\ mState' = "LOST"
     /\ mmStarted' = p.mm
     /\ mnLastRelocFrameId' = p.reloc
     /\ mCurrentFrame' = last
     /\ mLastFrame' = last
     /\ mpReferenceKF' = pKF
     /\ mpLastKeyFrame' = pKF
     /\ mnLastKeyFrameId' = F.mnId
     /\ KeyFrameNextId' = NextId(KeyFrameNextId)
     /\ lmQueue' = Append(lmQueue, pKF)
     /\ lastRelativePose_' = StoreRelativePose(last)
     /\ obs' = [o EXCEPT !.commit = "LOST", !.nKFsChk = Len(mapKFs),
                         !.edges = Edge(mState, "LOST"),
                         !.ret = GrabReturn(last)]
     /\ UNCHANGED <<mpInitializer, FrameNextId, mapKFs, mapMPs, unlinked>>

\* the frame is lost
TrackFailed(p, F, ref, o) ==
  LET nKFs == Len(mapKFs)
      st == CommitState(FALSE)
  IN IF EarlyLoss(st, nKFs)
       THEN /\ SystemReset
            /\ mnLastRelocFrameId' = p.reloc
            /\ mCurrentFrame' = F
            /\ mLastFrame' = p.last
            /\ mpReferenceKF' = ref
            /\ obs' = [o EXCEPT !.commit = st, !.sysReset = TRUE,
                                !.nKFsChk = nKFs,
                                !.edges = Edge(mState, st)
                                          \cup Edge(st, "NO_IMAGES_YET"),
                                !.ret = GrabReturn(F),
                                !.mapTouched = TRUE]
            /\ UNCHANGED <<mpLastKeyFrame, mnLastKeyFrameId>>
       ELSE LET last == IF F.refKF = NoKF THEN [F EXCEPT !.refKF = ref]
                        ELSE F
            IN /\ mState' = st
               /\ mmStarted' = p.mm
               /\ mnLastRelocFrameId' = p.reloc
               /\ mCurrentFrame' = last
               /\ mLastFrame' = last
               /\ mpReferenceKF' = ref
               /\ lastRelativePose_' = StoreRelativePose(last)
               /\ obs' = [o EXCEPT !.commit = st, !.nKFsChk = nKFs,
                                   !.edges = Edge(mState, st),
                                   !.ret = GrabReturn(last)]
               /\ UNCHANGED <<mpInitializer, FrameNextId, mapKFs, mapMPs,
                              lmQueue, unlinked, KeyFrameNextId, mpLastKeyFrame,
                              mnLastKeyFrameId>>

\* NeedNewKeyFrame: "(c1a || c1b || c1c) && c2" for the frame
KeyFrameWanted(F, inliers, m, nRefMatches, c) ==
  LET nKFs == Len(mapKFs)
      bNeedToInsertClose == c.tracked < 100 /\ c.non > 70
      c1a == F.mnId >= mnLastKeyFrameId + mMaxFrames
      c1b == F.mnId >= mnLastKeyFrameId + mMinFrames /\ m.idle
      c1c == mSensor = "RGBD"
             /\ (inliers * 100 < nRefMatches * 25 \/ bNeedToInsertClose)
      c2 == (inliers * 100 < nRefMatches * ThRefRatio(nKFs)
             \/ bNeedToInsertClose)
            /\ inliers > 15
  IN (c1a \/ c1b \/ c1c) /\ c2

\* CreateNewKeyFrame going on after SetNotStop(true) was refused
KeyFrameCreatedAnyway(need, bNotStop) == need

\* "if (NeedNewKeyFrame()) CreateNewKeyFrame();" makes a keyframe unless
\* "if (!mpLocalMapper->SetNotStop(true)) return;"
KeyFrameCreated(need, bNotStop) == need /\ bNotStop

\* the keyframe decision of a tracked frame: NeedNewKeyFrame, then
\* CreateNewKeyFrame, which gives up when SetNotStop(true) is refused
KeyFrameDecision(p, F, ref, inliers, o) ==
  \E m \in MapperFlags, nRefMatches \in RefMatches, c \in CloseCounts :
    LET clean == [F EXCEPT !.inVO = 0]
        need == NeedNewKeyFrame(clean, p.reloc, inliers, m, nRefMatches, c)
        o2 == [o EXCEPT
                 !.kf = "NotNeeded",
                 !.stopped = m.stopped \/ m.stopReq,
                 !.wanted = KeyFrameWanted(clean, inliers, m, nRefMatches,
                                           c),
                 !.interruptBA = InterruptsBA(clean, p.reloc, inliers, m,
                                              nRefMatches, c)]
    IN IF ~need
         THEN TrackSucceeded(p, F, ref, inliers, o2, FALSE, 0)
         ELSE \E bNotStop \in BOOLEAN :
                LET o3 == [o2 EXCEPT !.kf = IF bNotStop THEN "Created"
                                            ELSE "Refused"]
                IN IF ~KeyFrameCreated(need, bNotStop)
                     THEN TrackSucceeded(p, F, ref, inliers, o3, FALSE, 0)
                     ELSE \E nNew \in NewPoints :
                            TrackSucceeded(p, F, ref, inliers, o3, TRUE, nNew)

TrackFrame ==
  /\ trackPC = "locked"
  /\ mState \in {"OK", "LOST"}
  /\ \E p \in InitialPose :
       LET F0 == [p.F EXCEPT !.refKF = mpReferenceKF]
           o == [ObsNone EXCEPT !.op = "Track", !.entry = mState,
                                !.first = p.first, !.retried = p.retried,
                                !.started0 = mmStarted, !.bOKini = p.ok,
                                !.firstOK = p.firstOK,
                                !.refTries = p.refTries,
                                !.restarted = p.restart,
                                !.held = mapLock]
       IN IF ~p.ok
            THEN TrackFailed(p, F0, mpReferenceKF, o)
            ELSE \E q \in { TrackLocalMap(F0, l) : l \in LocalOutcomes } :
                   LET o1 == [o EXCEPT !.lmRan = TRUE,
                                       !.inliers = q.mnMatchesInliers]
                   IN IF CommitState(q.ok) = "OK"
                        THEN KeyFrameDecision(p, q.F, q.ref,
                                              q.mnMatchesInliers, o1)
                        ELSE TrackFailed(p, q.F, q.ref, o1)
  /\ TrackReturn
  /\ UNCHANGED <<mLastProcessedState, mSensor, usePattern, mpReplaced, driver,
                 mInitialFrame,
                 nGrabs, nResets>>

----------------------------------------------------------------------------
\* LocalMapping: takes the next keyframe of its queue and puts it in the Map,
\* under the map mutex

LocalMapperProcess ==
  /\ mapLock = "free"
  /\ lmQueue # <<>>
  /\ lmQueue' = Tail(lmQueue)
  /\ unlinked' = unlinked \ {Head(lmQueue).uid}
  /\ mapKFs' = IF Head(lmQueue) \in Range(mapKFs) THEN mapKFs
               ELSE Append(mapKFs, Head(lmQueue))
  /\ obs' = [ObsNone EXCEPT !.op = "LocalMapping", !.entry = mState,
                            !.mapTouched = TRUE, !.held = "LocalMapping"]
  /\ UNCHANGED <<mState, mLastProcessedState, mSensor, usePattern,
                 mpReplaced, driver,
                 mpInitializer, mCurrentFrame, mLastFrame, mInitialFrame,
                 mnLastRelocFrameId, mnLastKeyFrameId, mpLastKeyFrame,
                 mpReferenceKF, mmStarted, lastRelativePose_, FrameNextId,
                 KeyFrameNextId, mapMPs, mapLock, trackPC, nGrabs, nResets>>

----------------------------------------------------------------------------

Next ==
  \/ GrabImageRGBD
  \/ GrabImageMonocular
  \/ GrabImageFusion
  \/ TrackAcquire
  \/ StereoInitialization
  \/ PatternInitialization
  \/ MonocularInitialization
  \/ TrackFrame
  \/ DriverReset
  \/ LocalMapperProcess

Spec == Init /\ [][Next]_vars

----------------------------------------------------------------------------
\* The tracking thread and a LocalMapper that keeps the map mutex for a while:
\* the mutex is taken in one step and given back in a later one.  Track()
\* waits at "unique_lock<mutex> lock(mpMap->mMutexMapUpdate)" meanwhile.

\* LocalMapping takes the map mutex to work on the next keyframe of its queue
LocalMapperLock ==
  /\ mapLock = "free"
  /\ lmQueue # <<>>
  /\ mapLock' = "LocalMapping"
  /\ obs' = [ObsNone EXCEPT !.op = "LocalMappingLock", !.entry = mState,
                            !.held = "LocalMapping"]
  /\ UNCHANGED <<mState, mLastProcessedState, mSensor, usePattern,
                 mpReplaced, driver,
                 mpInitializer, mCurrentFrame, mLastFrame, mInitialFrame,
                 mnLastRelocFrameId, mnLastKeyFrameId, mpLastKeyFrame,
                 mpReferenceKF, mmStarted, lastRelativePose_, FrameNextId,
                 KeyFrameNextId, mapKFs, mapMPs, lmQueue, unlinked, trackPC,
                 nGrabs, nResets>>

\* LocalMapping has put the keyframe in the Map and gives the mutex back
LocalMapperUnlock ==
  /\ mapLock = "LocalMapping"
  /\ mapLock' = "free"
  /\ IF lmQueue = <<>>
       THEN \* the driver's reset emptied the queue meanwhile
            UNCHANGED <<lmQueue, unlinked, mapKFs>>
       ELSE /\ lmQueue' = Tail(lmQueue)
            /\ unlinked' = unlinked \ {Head(lmQueue).uid}
            /\ mapKFs' = IF Head(lmQueue) \in Range(mapKFs) THEN mapKFs
                         ELSE Append(mapKFs, Head(lmQueue))
  /\ obs' = [ObsNone EXCEPT !.op = "LocalMapping", !.entry = mState,
                            !.mapTouched = TRUE, !.held = "LocalMapping"]
  /\ UNCHANGED <<mState, mLastProcessedState, mSensor, usePattern,
                 mpReplaced, driver,
                 mpInitializer, mCurrentFrame, mLastFrame, mInitialFrame,
                 mnLastRelocFrameId, mnLastKeyFrameId, mpLastKeyFrame,
                 mpReferenceKF, mmStarted, lastRelativePose_, FrameNextId,
                 KeyFrameNextId, mapMPs, trackPC, nGrabs, nResets>>

\* the body of Track(), from the mutex taken to the return
TrackBody ==
  \/ StereoInitialization
  \/ PatternInitialization
  \/ MonocularInitialization
  \/ TrackFrame

\* frames fed to the tracker in a run with the slow LocalMapper
MaxLiveGrabs == 5

\* the next Grab* call of the driver
GrabImage ==
  /\ nGrabs < MaxLiveGrabs
  /\ \/ GrabImageRGBD
     \/ GrabImageMonocular
     \/ GrabImageFusion

NextLive ==
  \/ GrabImage
  \/ TrackAcquire
  \/ TrackBody
  \/ DriverReset
  \/ LocalMapperLock
  \/ LocalMapperUnlock

\* The tracking thread runs when it can: it gets the mutex once the mutex
\* stays free (while Track() waits nothing enters the queue, so LocalMapping
\* takes the mutex finitely often), and the body of Track() has no wait of
\* its own.  LocalMapping gives back a mutex it holds.
SpecLive ==
  /\ Init
  /\ [][NextLive]_vars
  /\ WF_vars(TrackAcquire)
  /\ WF_vars(TrackBody)
  /\ WF_vars(LocalMapperUnlock)

----------------------------------------------------------------------------
\* NeedNewKeyFrame on its own: the tracker in OK with some keyframes in the
\* Map and in the LocalMapper queue, and the predicate applied to a tracked
\* frame

\* a keyframe made of frame i - 1
SomeKF(i) == [NoKF EXCEPT !.uid = i, !.id = i - 1, !.fid = i - 1, !.pose = "T"]

\* keyframes in the Map, around the values nKFs is compared with
MapSizes == {1, 2, mMaxFrames, mMaxFrames + 1}

\* keyframes waiting in the queue
QueueSizes == {0, 2, 3}

\* inliers TrackLocalMap counted
InlierCounts == {15, 16, 30, 100}

InitKF ==
  /\ mState = "OK"
  /\ mLastProcessedState = "OK"
  /\ mSensor \in {"MONOCULAR", "RGBD"}
  /\ usePattern = FALSE
  /\ mpInitializer = FALSE
  /\ mCurrentFrame = NoFrame
  /\ mLastFrame = NoFrame
  /\ mInitialFrame = NoFrame
  /\ mnLastRelocFrameId = 0
  /\ mnLastKeyFrameId \in {0, 1}
  /\ \E n \in MapSizes :
       /\ mapKFs = [i \in 1..n |-> SomeKF(i)]
       /\ mpLastKeyFrame = SomeKF(n)
       /\ mpReferenceKF = SomeKF(n)
       /\ KeyFrameNextId = n
  /\ mmStarted = TRUE
  /\ lastRelativePose_ = "T"
  /\ FrameNextId = 0
  /\ mapMPs = 100
  /\ \E q \in QueueSizes : lmQueue = [i \in 1..q |-> SomeKF(10 + i)]
  /\ unlinked = {}
  /\ mapLock = "Tracking"
  /\ trackPC = "locked"
  /\ nGrabs = 0
  /\ nResets = 0
  /\ mpReplaced = <<>>
  /\ driver = "running"
  /\ obs = [op |-> "None"]

\* NeedNewKeyFrame() for a tracked frame
EvalNeedNewKeyFrame ==
  \E fid \in mnLastKeyFrameId..(mnLastKeyFrameId + mMaxFrames + 1),
     inliers \in InlierCounts, m \in MapperFlags,
     nRefMatches \in RefMatches, c \in CloseCounts :
    LET F == [NewFrame(fid, 600, 500) EXCEPT !.pose = "T", !.inMap = inliers,
                                             !.refKF = mpReferenceKF]
    IN /\ mCurrentFrame' = F
       /\ FrameNextId' = fid + 1
       /\ obs' = [op |-> "NeedNewKeyFrame", inliers |-> inliers, m |-> m,
                  nRefMatches |-> nRefMatches, c |-> c,
                  need |-> NeedNewKeyFrame(F, mnLastRelocFrameId, inliers, m,
                                           nRefMatches, c),
                  interruptBA |-> InterruptsBA(F, mnLastRelocFrameId, inliers,
                                               m, nRefMatches, c)]
       /\ UNCHANGED <<mState, mLastProcessedState, mSensor, usePattern,
                 mpReplaced, driver,
                      mpInitializer, mLastFrame, mInitialFrame,
                      mnLastRelocFrameId, mnLastKeyFrameId, mpLastKeyFrame,
                      mpReferenceKF, mmStarted, lastRelativePose_,
                      KeyFrameNextId, mapKFs, mapMPs, lmQueue, unlinked,
                      mapLock, trackPC, nGrabs, nResets>>

NextKF == EvalNeedNewKeyFrame

SpecKF == InitKF /\ [][NextKF]_vars

----------------------------------------------------------------------------
\* CheckReplacedInLastFrame on its own: a last frame whose slots hold any of
\* a few MapPoints, some of them replaced, and the function applied to it
\* again and again with the Map left alone

\* applications of CheckReplacedInLastFrame in a row
MaxChases == 2

\* the MapPoints, and the null pointer
Points == 1..3
NoPoint == 0

\* the slots of the last frame
Slots == 1..2

\* the replacement pointers LocalMapping and LoopClosing can have left: a
\* MapPoint is replaced by a MapPoint that was alive then, so the pointers
\* form chains without a cycle
Replacements ==
  { r \in [Points -> Points \cup {NoPoint}] :
      \A p \in Points : r[p] = NoPoint \/ r[p] > p }

\* a slot that follows the replacements to their end
ReplacedToEnd(pMP) ==
  LET one == IF pMP # NoPoint /\ mpReplaced[pMP] # NoPoint
               THEN mpReplaced[pMP] ELSE pMP
      two == IF one # NoPoint /\ mpReplaced[one] # NoPoint
               THEN mpReplaced[one] ELSE one
  IN two

\* "MapPoint* pRep = pMP->GetReplaced(); if (pRep) mvpMapPoints[i] = pRep;"
Replaced(pMP) ==
  IF pMP # NoPoint /\ mpReplaced[pMP] # NoPoint THEN mpReplaced[pMP]
  ELSE pMP

InitChase ==
  /\ mState = "OK"
  /\ mLastProcessedState = "OK"
  /\ mSensor = "MONOCULAR"
  /\ usePattern = FALSE
  /\ mpInitializer = FALSE
  /\ mCurrentFrame = NoFrame
  /\ \E slots \in [Slots -> Points \cup {NoPoint}] :
       mLastFrame = [mnId |-> 0, N |-> Cardinality(Slots),
                     mvpMapPoints |-> slots]
  /\ mInitialFrame = NoFrame
  /\ mnLastRelocFrameId = 0
  /\ mnLastKeyFrameId = 0
  /\ mpLastKeyFrame = NoKF
  /\ mpReferenceKF = NoKF
  /\ mmStarted = TRUE
  /\ lastRelativePose_ = "T"
  /\ FrameNextId = 1
  /\ KeyFrameNextId = 1
  /\ mapKFs = <<>>
  /\ mapMPs = 3
  /\ lmQueue = <<>>
  /\ unlinked = {}
  /\ mapLock = "Tracking"
  /\ trackPC = "locked"
  /\ nGrabs = 0
  /\ nResets = 0
  /\ mpReplaced \in Replacements
  /\ driver = "running"
  /\ obs = [op |-> "None", n |-> 0, before |-> <<>>]

CheckReplacedInLastFrame ==
  /\ obs.n < MaxChases
  /\ mLastFrame' =
       [mLastFrame EXCEPT
          !.mvpMapPoints = [i \in Slots |-> Replaced(mLastFrame.mvpMapPoints[i])]]
  /\ obs' = [op |-> "CheckReplacedInLastFrame", n |-> obs.n + 1,
             before |-> mLastFrame.mvpMapPoints]
  /\ UNCHANGED <<mState, mLastProcessedState, mSensor, usePattern,
                 mpReplaced, driver, mpInitializer, mCurrentFrame, mInitialFrame,
                 mnLastRelocFrameId, mnLastKeyFrameId, mpLastKeyFrame,
                 mpReferenceKF, mmStarted, lastRelativePose_, FrameNextId,
                 KeyFrameNextId, mapKFs, mapMPs, lmQueue, unlinked, mapLock,
                 trackPC, nGrabs, nResets>>

NextChase == CheckReplacedInLastFrame

SpecChase == InitChase /\ [][NextChase]_vars

----------------------------------------------------------------------------
\* Relocalization on its own: a lost tracker, some keyframes in the Map, and
\* the scan applied to a frame for every way the candidates can answer

\* keyframes in the Map when Relocalization runs
MaxRelocKFs == 3

\* what a candidate keyframe gives: ImageAlign::ComputePose, the matches of
\* SearchByProjection, the inliers of PoseOptimization
CandidateResults ==
  [align : BOOLEAN, nmatches : {ThMatches - 1, ThMatches},
   nGood : {ThInliers - 1, ThInliers}]

\* the pose of the i-th keyframe put in the Map
RelocKF(i) ==
  [NoKF EXCEPT !.uid = i, !.id = i - 1, !.fid = i - 1,
               !.pose = CASE i = 1 -> "K1" [] i = 2 -> "K2" [] OTHER -> "K3"]

\* Map::GetAllKeyFrames: the keyframes of the Map in the order they were
\* inserted
GetAllKeyFrames == mapKFs

\* a scan from the oldest keyframe
InsertionOrder(n) == [j \in 1..n |-> j]

\* "for (auto it=kfs.rbegin(); it != kfs.rend(); it++)": the places of the
\* vector in the order the loop visits them
ReverseOrder(n) == [j \in 1..n |-> n - j + 1]

RECURSIVE RelocalizationLoop(_, _, _, _, _)

\* the loop of Relocalization over the places in order, for the candidates'
\* answers res; tried lists the places visited so far
RelocalizationLoop(F, kfs, res, order, tried) ==
  IF order = <<>>
    THEN [ok |-> FALSE, cand |-> 0, F |-> F, tried |-> tried]
    ELSE LET i == Head(order)
             seen == Append(tried, i)
             posed == [F EXCEPT !.pose = kfs[i].pose]
             matched == [posed EXCEPT !.inMap = res[i].nmatches, !.inVO = 0,
                                      !.out = 0]
             solved == [matched EXCEPT !.pose = "T",
                                       !.inMap = res[i].nGood,
                                       !.out = res[i].nmatches - res[i].nGood]
         IN IF ~res[i].align
              THEN RelocalizationLoop(posed, kfs, res, Tail(order), seen)
            ELSE IF res[i].nmatches < ThMatches
              THEN RelocalizationLoop(matched, kfs, res, Tail(order), seen)
            ELSE IF res[i].nGood < ThInliers
              THEN RelocalizationLoop(solved, kfs, res, Tail(order), seen)
            ELSE [ok |-> TRUE, cand |-> i, F |-> solved, tried |-> seen]

InitReloc ==
  /\ mState = "LOST"
  /\ mLastProcessedState = "LOST"
  /\ mSensor \in {"MONOCULAR", "RGBD"}
  /\ usePattern = FALSE
  /\ mpInitializer = FALSE
  /\ \E id \in {4, 5} : mCurrentFrame = NewFrame(id, 1000, 0)
  /\ mLastFrame = NewFrame(3, 1000, 0)
  /\ mInitialFrame = NoFrame
  /\ mnLastRelocFrameId \in {0, 2}
  /\ \E n \in 0..MaxRelocKFs :
       /\ mapKFs = [i \in 1..n |-> RelocKF(i)]
       /\ KeyFrameNextId = n
       /\ mnLastKeyFrameId = IF n = 0 THEN 0 ELSE n - 1
       /\ mpLastKeyFrame = IF n = 0 THEN NoKF ELSE RelocKF(n)
       /\ mpReferenceKF = IF n = 0 THEN NoKF ELSE RelocKF(n)
  /\ mmStarted = FALSE
  /\ lastRelativePose_ = "Zero"
  /\ FrameNextId = mCurrentFrame.mnId + 1
  /\ mapMPs = 100
  /\ lmQueue = <<>>
  /\ unlinked = {}
  /\ mapLock = "Tracking"
  /\ trackPC = "locked"
  /\ nGrabs = 0
  /\ nResets = 0
  /\ mpReplaced = <<>>
  /\ driver = "running"
  /\ obs = [op |-> "None"]

\* bool Tracking::Relocalization(), once, on the current frame
RelocalizationCall ==
  /\ obs.op = "None"
  /\ \E res \in [1..Len(mapKFs) -> CandidateResults] :
       LET kfs == GetAllKeyFrames
           r == RelocalizationLoop(mCurrentFrame, kfs, res,
                                   ReverseOrder(Len(kfs)), <<>>)
       IN /\ mCurrentFrame' = r.F
          /\ mnLastRelocFrameId' = IF r.ok THEN mCurrentFrame.mnId
                                   ELSE mnLastRelocFrameId
          /\ obs' = [op |-> "Relocalization", res |-> res, ok |-> r.ok,
                     cand |-> r.cand, tried |-> r.tried,
                     relocId |-> mnLastRelocFrameId,
                     frameId |-> mCurrentFrame.mnId]
  /\ UNCHANGED <<mState, mLastProcessedState, mSensor, usePattern,
                 mpReplaced, driver, mpInitializer, mLastFrame, mInitialFrame,
                 mnLastKeyFrameId, mpLastKeyFrame,
                 mpReferenceKF, mmStarted, lastRelativePose_, FrameNextId,
                 KeyFrameNextId, mapKFs, mapMPs, lmQueue, unlinked, mapLock,
                 trackPC, nGrabs, nResets>>

NextReloc == RelocalizationCall

SpecReloc == InitReloc /\ [][NextReloc]_vars

----------------------------------------------------------------------------
\* TrackReferenceKeyFrame on its own, applied to a frame for every answer of
\* the matcher and the optimizer

\* the two searches and the optimization, with nothing assumed of the wider
\* search when the first one is enough
RefAttempts ==
  { a \in [n1 : {0, 19, 20, 21}, n2 : {0, 19, 20, 21}, inMap : {0, 9, 10, 11},
           out : {0, 1, 5}] :
      a.inMap + a.out <= (IF a.n1 < ThMatches THEN a.n2 ELSE a.n1) }

InitRefKF ==
  /\ mState = "OK"
  /\ mLastProcessedState = "OK"
  /\ mSensor \in {"MONOCULAR", "RGBD"}
  /\ usePattern = FALSE
  /\ mpInitializer = FALSE
  /\ mpReferenceKF = [NoKF EXCEPT !.uid = 1, !.id = 0, !.fid = 0, !.pose = "I"]
  /\ mpLastKeyFrame = mpReferenceKF
  /\ \E pose \in {"I", "T"} :
       mLastFrame = [NewFrame(1, 1000, 0) EXCEPT !.pose = pose,
                                                 !.refKF = mpReferenceKF,
                                                 !.inMap = 100]
  /\ \E left \in {0, 19} :
       mCurrentFrame = [NewFrame(2, 1000, 0) EXCEPT !.inMap = left]
  /\ mInitialFrame = NoFrame
  /\ mnLastRelocFrameId = 0
  /\ mnLastKeyFrameId = 0
  /\ mmStarted \in BOOLEAN
  /\ lastRelativePose_ = "T"
  /\ FrameNextId = 3
  /\ KeyFrameNextId = 1
  /\ mapKFs = <<mpReferenceKF>>
  /\ mapMPs = 100
  /\ lmQueue = <<>>
  /\ unlinked = {}
  /\ mapLock = "Tracking"
  /\ trackPC = "locked"
  /\ nGrabs = 0
  /\ nResets = 0
  /\ mpReplaced = <<>>
  /\ driver = "running"
  /\ obs = [op |-> "None"]

\* bool Tracking::TrackReferenceKeyFrame(), once, on the current frame
TrackReferenceKeyFrameCall ==
  /\ obs.op = "None"
  /\ \E a \in RefAttempts :
       LET r == TrackReferenceKeyFrame(mCurrentFrame, a, mLastFrame)
       IN /\ mCurrentFrame' = r.F
          /\ obs' = [op |-> "TrackReferenceKeyFrame", a |-> a, ok |-> r.ok,
                     wide |-> r.wide]
  /\ UNCHANGED <<mState, mLastProcessedState, mSensor, usePattern,
                 mpReplaced, driver, mpInitializer, mLastFrame, mInitialFrame,
                 mnLastRelocFrameId, mnLastKeyFrameId, mpLastKeyFrame,
                 mpReferenceKF, mmStarted, lastRelativePose_, FrameNextId,
                 KeyFrameNextId, mapKFs, mapMPs, lmQueue, unlinked, mapLock,
                 trackPC, nGrabs, nResets>>

NextRefKF == TrackReferenceKeyFrameCall

SpecRefKF == InitRefKF /\ [][NextRefKF]_vars

----------------------------------------------------------------------------
\* CreateNewKeyFrame on its own: a tracked frame whose keypoints have a depth
\* and a slot each, and the function applied to it

\* Tracking::mThDepth, the depth that separates close from far keypoints (in
\* the unit of mvDepth)
mThDepth == 40

\* "nPoints>100"
ThNewPoints == 100

\* what a slot of mvpMapPoints holds: nothing, a MapPoint no keyframe
\* observes (Observations() < 1), a MapPoint of the Map, a MapPoint made by
\* this call
SlotNone == "none"
SlotVO == "vo"
SlotMap == "map"
SlotNew == "new"

\* n times the value v
Run(v, n) == [i \in 1..n |-> v]

\* the keypoints of a frame in slot order, their depths and their slots: far
\* ones first, then close ones, some at the threshold, one without depth
Layout(farNovel, farMapped, closeMapped, closeNovel, closeVO, atTh) ==
  [mvDepth |-> Run(mThDepth + 10, farNovel)
               \o Run(mThDepth + 5, farMapped)
               \o Run(mThDepth - 30, closeMapped)
               \o Run(mThDepth - 20, closeNovel)
               \o Run(mThDepth - 10, closeVO)
               \o Run(mThDepth, atTh)
               \o Run(0, 1),
   mvpMapPoints |-> Run(SlotNone, farNovel)
                    \o Run(SlotMap, farMapped)
                    \o Run(SlotMap, closeMapped)
                    \o Run(SlotNone, closeNovel)
                    \o Run(SlotVO, closeVO)
                    \o Run(SlotNone, atTh)
                    \o Run(SlotNone, 1)]

Layouts ==
  { Layout(fn, fm, cm, cn, cv, at) :
      fn \in {0, 2}, fm \in {0, 2}, cm \in {0, ThNewPoints - 1, ThNewPoints},
      cn \in {0, 1, ThNewPoints + 1}, cv \in {0, 1}, at \in {0, 1} }

\* "vDepthIdx.push_back(make_pair(z, i))" for the keypoints with z > 0
DepthIdx(mvDepth) ==
  SelectSeq([i \in 1..Len(mvDepth) |-> <<mvDepth[i], i>>],
            LAMBDA p : p[1] > 0)

\* "sort(vDepthIdx.begin(), vDepthIdx.end())": pairs in lexicographic order
SortedDepthIdx(mvDepth) ==
  SortSeq(DepthIdx(mvDepth),
          LAMBDA a, b : a[1] < b[1] \/ (a[1] = b[1] /\ a[2] < b[2]))

\* a turn of a loop that stops after 100 new MapPoints and at the depth
\* threshold
NewMapPointCapped(vDepthIdx, j, st) ==
  IF st.done THEN st
  ELSE IF st.nPoints >= ThNewPoints \/ vDepthIdx[j][1] >= mThDepth
    THEN [st EXCEPT !.done = TRUE]
  ELSE LET i == vDepthIdx[j][2]
       IN IF st.slots[i] \in {SlotNone, SlotVO}
            THEN [st EXCEPT !.slots[i] = SlotNew,
                            !.created = Append(st.created, i),
                            !.nPoints = st.nPoints + 1]
            ELSE st

\* one turn of "for (size_t j = 0; j < vDepthIdx.size(); j++)": st holds the
\* slots, the slots that got a new MapPoint so far (in the order they got
\* it), nPoints, and whether the loop was left by break
NewMapPoint(vDepthIdx, j, st) ==
  IF st.done THEN st
  ELSE LET i == vDepthIdx[j][2]
           \* "if (!pMP) ... else if (pMP->Observations()<1)"
           bCreateNew == st.slots[i] \in {SlotNone, SlotVO}
           \* nPoints++ in both branches
           n1 == st.nPoints + 1
       IN [slots |-> IF bCreateNew THEN [st.slots EXCEPT ![i] = SlotNew]
                     ELSE st.slots,
           created |-> IF bCreateNew THEN Append(st.created, i)
                       ELSE st.created,
           nPoints |-> n1,
           done |-> vDepthIdx[j][1] > mThDepth /\ n1 > ThNewPoints]

\* LocalMapping::SetNotStop(flag) with the mapper's answer b to
\* SetNotStop(true): the not-stop condition after the call
SetNotStop(flag, b) == flag /\ b

InitNewKF ==
  /\ mState = "OK"
  /\ mLastProcessedState = "OK"
  /\ mSensor \in {"MONOCULAR", "RGBD"}
  /\ usePattern = FALSE
  /\ mpInitializer = FALSE
  /\ mpReferenceKF = [NoKF EXCEPT !.uid = 1, !.id = 0, !.fid = 0, !.pose = "I"]
  /\ mpLastKeyFrame = mpReferenceKF
  /\ mLastFrame = [NewFrame(1, 0, 0) EXCEPT !.pose = "T",
                                            !.refKF = mpReferenceKF]
  /\ \E kps \in Layouts :
       mCurrentFrame =
         kps @@ [NewFrame(2, Len(kps.mvDepth), 0)
                   EXCEPT !.pose = "T", !.refKF = mpReferenceKF]
  /\ mInitialFrame = NoFrame
  /\ mnLastRelocFrameId = 0
  /\ mnLastKeyFrameId = 0
  /\ mmStarted = TRUE
  /\ lastRelativePose_ = "T"
  /\ FrameNextId = 3
  /\ KeyFrameNextId = 1
  /\ mapKFs = <<mpReferenceKF>>
  /\ mapMPs = 100
  /\ lmQueue = <<>>
  /\ unlinked = {}
  /\ mapLock = "Tracking"
  /\ trackPC = "locked"
  /\ nGrabs = 0
  /\ nResets = 0
  /\ mpReplaced = <<>>
  /\ driver = "running"
  /\ obs = [op |-> "None", notStop |-> FALSE]

\* void Tracking::CreateNewKeyFrame() on the current frame, up to the loop
\* over the keypoints; bNotStop is what SetNotStop(true) returns.  obs.calls
\* lists the calls made to the LocalMapper so far, obs.notStop is its
\* not-stop condition, obs.j the next turn of the loop.
CreateNewKeyFrame ==
  /\ obs.op = "None"
  /\ \E bNotStop \in BOOLEAN :
       IF ~bNotStop
         THEN /\ obs' = [op |-> "CreateNewKeyFrame", ok |-> FALSE,
                         calls |-> <<"SetNotStop(true)">>,
                         notStop |-> SetNotStop(TRUE, bNotStop),
                         created |-> <<>>]
              /\ UNCHANGED <<mCurrentFrame, mpReferenceKF, KeyFrameNextId>>
         ELSE LET pKF == NewKeyFrame(2, mCurrentFrame)
              IN /\ mpReferenceKF' = pKF
                 /\ mCurrentFrame' = [mCurrentFrame EXCEPT !.refKF = pKF]
                 /\ KeyFrameNextId' = NextId(KeyFrameNextId)
                 /\ obs' = [op |-> "NewMapPoints", ok |-> TRUE,
                            calls |-> <<"SetNotStop(true)">>,
                            notStop |-> SetNotStop(TRUE, bNotStop),
                            vDepthIdx |->
                              IF mSensor = "RGBD"
                                THEN SortedDepthIdx(mCurrentFrame.mvDepth)
                                ELSE <<>>,
                            j |-> 1, created |-> <<>>, nPoints |-> 0,
                            done |-> FALSE]
  /\ UNCHANGED <<mState, mLastProcessedState, mSensor, usePattern,
                 mpReplaced, driver, mpInitializer, mLastFrame, mInitialFrame,
                 mnLastRelocFrameId, mmStarted, lastRelativePose_, FrameNextId,
                 mapKFs, mapLock, trackPC, nGrabs, nResets, mpLastKeyFrame,
                 mnLastKeyFrameId, mapMPs, lmQueue, unlinked>>

\* CreateNewKeyFrame, one turn of the loop over the sorted keypoints
CreateNewMapPoint ==
  /\ obs.op = "NewMapPoints"
  /\ obs.j <= Len(obs.vDepthIdx)
  /\ ~obs.done
  /\ LET st == NewMapPoint(obs.vDepthIdx, obs.j,
                           [slots |-> mCurrentFrame.mvpMapPoints,
                            created |-> obs.created,
                            nPoints |-> obs.nPoints, done |-> obs.done])
     IN /\ mCurrentFrame' = [mCurrentFrame EXCEPT !.mvpMapPoints = st.slots]
        \* "mpMap->AddMapPoint(pNewMP)"
        /\ mapMPs' = mapMPs + (Len(st.created) - Len(obs.created))
        /\ obs' = [obs EXCEPT !.j = obs.j + 1, !.created = st.created,
                              !.nPoints = st.nPoints, !.done = st.done]
  /\ UNCHANGED <<mState, mLastProcessedState, mSensor, usePattern,
                 mpReplaced, driver, mpInitializer, mLastFrame, mInitialFrame,
                 mnLastRelocFrameId, mmStarted, lastRelativePose_, FrameNextId,
                 mapKFs, mapLock, trackPC, nGrabs, nResets, mpLastKeyFrame,
                 mnLastKeyFrameId, lmQueue, unlinked, mpReferenceKF,
                 KeyFrameNextId>>

\* a tracker that inserts the keyframe and leaves the LocalMapper as it is
InsertKeyFrameOnly(notStop) ==
  [calls |-> <<"InsertKeyFrame">>, notStop |-> notStop]

\* "mpLocalMapper->InsertKeyFrame(pKF); mpLocalMapper->SetNotStop(false)":
\* the calls made and the not-stop condition after them
InsertKeyFrameAndRelease(notStop) ==
  [calls |-> <<"InsertKeyFrame", "SetNotStop(false)">>,
   notStop |-> SetNotStop(FALSE, notStop)]

\* CreateNewKeyFrame after the loop: "mpLocalMapper->InsertKeyFrame(pKF);
\* mpLocalMapper->SetNotStop(false); mnLastKeyFrameId = mCurrentFrame.mnId;
\* mpLastKeyFrame = pKF"
InsertNewKeyFrame ==
  /\ obs.op = "NewMapPoints"
  /\ obs.j > Len(obs.vDepthIdx) \/ obs.done
  /\ LET kf == [mpReferenceKF EXCEPT !.added = Len(obs.created)]
     IN /\ mpReferenceKF' = kf
        /\ mCurrentFrame' = [mCurrentFrame EXCEPT !.refKF = kf]
        /\ lmQueue' = Append(lmQueue, kf)
        /\ mpLastKeyFrame' = kf
  /\ mnLastKeyFrameId' = mCurrentFrame.mnId
  /\ LET r == InsertKeyFrameAndRelease(obs.notStop)
     IN obs' = [obs EXCEPT !.op = "CreateNewKeyFrame",
                           !.calls = obs.calls \o r.calls,
                           !.notStop = r.notStop]
  /\ UNCHANGED <<mState, mLastProcessedState, mSensor, usePattern,
                 mpReplaced, driver, mpInitializer, mLastFrame, mInitialFrame,
                 mnLastRelocFrameId, mmStarted, lastRelativePose_, FrameNextId,
                 mapKFs, mapLock, trackPC, nGrabs, nResets, mapMPs, unlinked,
                 KeyFrameNextId>>

NextNewKF == CreateNewKeyFrame \/ CreateNewMapPoint \/ InsertNewKeyFrame

SpecNewKF == InitNewKF /\ [][NextNewKF]_vars

----------------------------------------------------------------------------
\* The tracker from a relocalization on: the run of Spec taken up after the
\* Track call that relocalized, with a few more frames and a reset() to come

\* frames fed after the relocalization
MaxRelocGrabs == 4

\* the earliest frame that can relocalize: keyframes of the frames 0 to
\* ThEarlyLossKFs, a frame that is lost, the frame that relocalizes
FirstRelocId == ThEarlyLossKFs + 2

InitRelocalized ==
  /\ mState = "OK"
  /\ mLastProcessedState = "LOST"
  /\ \E c \in Configurations : mSensor = c[1] /\ usePattern = c[2]
  /\ mpInitializer = FALSE
  /\ mapKFs = [i \in 1..(ThEarlyLossKFs + 1) |-> SomeKF(i)]
  /\ mpReferenceKF = SomeKF(ThEarlyLossKFs + 1)
  /\ mpLastKeyFrame = SomeKF(ThEarlyLossKFs + 1)
  /\ mnLastKeyFrameId = ThEarlyLossKFs
  /\ KeyFrameNextId = ThEarlyLossKFs + 1
  /\ mCurrentFrame =
       [NewFrame(FirstRelocId, 501, IF mSensor = "RGBD" THEN 501 ELSE 0)
          EXCEPT !.nth = MaxGrabs - MaxRelocGrabs, !.pose = "T",
                 !.refKF = mpReferenceKF, !.inMap = 50]
  /\ mLastFrame = mCurrentFrame
  /\ mInitialFrame = NoFrame
  \* "mnLastRelocFrameId = mCurrentFrame.mnId" of Relocalization
  /\ mnLastRelocFrameId = FirstRelocId
  /\ FrameNextId = FirstRelocId + 1
  /\ mmStarted = FALSE          \* motion_model_->Restart() after Relocalization
  /\ lastRelativePose_ = "T"
  /\ mapMPs = 100
  /\ lmQueue = <<>>
  /\ unlinked = {}
  /\ mapLock = "free"
  /\ trackPC = "idle"
  /\ nGrabs = MaxGrabs - MaxRelocGrabs
  /\ nResets = 0
  /\ mpReplaced = <<>>
  /\ driver = "running"
  /\ obs = ObsNone

SpecRelocalized == InitRelocalized /\ [][Next]_vars

----------------------------------------------------------------------------
\* UpdateLocalKeyFrames on its own: a current frame whose MapPoints vote for
\* some keyframes of a covisibility graph, and the function applied to it

\* "if (mvpLocalKeyFrames.size()>80) break;"
ThLocalKeyFrames == 80

\* keyframeCounter.size() of the frames tried
VoterCounts == {0, 1, 2, 3, 40, 80, 81}

\* where the spanning-tree parents of the voters are: nowhere, among the
\* voters, or outside them for the first or the third voter
ParentModes == {"none", "voter", "first", "third"}

\* the graphs tried: V voters 1..V in the order of keyframeCounter, voter
\* badVoter bad (0: none), the keyframes 1001.. bad or not
Graphs ==
  [V : VoterCounts, badVoter : {0, 2}, nbBad : BOOLEAN, parents : ParentModes]

\* keyframeCounter[pKF], the MapPoints of the frame that pKF observes
Votes(g, pKF) == 1 + (pKF % 3)

\* pKF->isBad()
IsBad(g, pKF) ==
  (pKF = g.badVoter) \/ (g.nbBad /\ pKF \in 1001..1999)

\* pKF->GetBestCovisibilityKeyFrames(10): the next voter, a keyframe of its
\* own and one it shares with another voter
GetBestCovisibilityKeyFrames(g, pKF) ==
  <<(pKF % g.V) + 1, 1000 + pKF, 2000 + ((pKF + 1) \div 2)>>

\* pKF->GetChilds()
GetChilds(g, pKF) ==
  IF g.parents = "voter" /\ pKF < g.V THEN <<pKF + 1, 3000 + pKF>>
  ELSE <<3000 + pKF>>

\* pKF->GetParent(), 0 for NULL
GetParent(g, pKF) ==
  CASE g.parents = "voter" -> pKF - 1
    [] g.parents = "first" -> IF pKF = 1 THEN 4000 ELSE 0
    [] g.parents = "third" -> IF pKF = 3 THEN 4000 ELSE 0
    [] OTHER -> 0

\* the first keyframe of kfs that is not bad (when bad ones are skipped) and
\* whose mnTrackReferenceForFrame is not the id of the frame; 0 if none
FirstNotIncluded(g, kfs, included, skipBad) ==
  LET ok == SelectSeq(kfs, LAMBDA k : k \notin included
                                      /\ ~(skipBad /\ IsBad(g, k)))
  IN IF ok = <<>> THEN 0 ELSE ok[1]

\* the voters that are not bad, in the order of keyframeCounter
GoodVoters(g) == SelectSeq([k \in 1..g.V |-> k], LAMBDA k : ~IsBad(g, k))

\* pKFmax: the first voter that is not bad with the most votes
MaxVoter(g) ==
  LET good == GoodVoters(g)
  IN IF good = <<>> THEN 0
     ELSE LET p == CHOOSE p \in 1..Len(good) :
                     /\ \A q \in 1..Len(good) :
                          Votes(g, good[q]) <= Votes(g, good[p])
                     /\ \A q \in 1..(p - 1) :
                          Votes(g, good[q]) < Votes(g, good[p])
          IN good[p]

\* one turn of the second loop for the keyframe pKF: a neighbour, a child
\* and the parent are pushed; break tells that the loop was left after the
\* parent
IncludeAround(g, pKF, local) ==
  LET n == FirstNotIncluded(g, GetBestCovisibilityKeyFrames(g, pKF),
                            Range(local), TRUE)
      l1 == IF n # 0 THEN Append(local, n) ELSE local
      c == FirstNotIncluded(g, GetChilds(g, pKF), Range(l1), TRUE)
      l2 == IF c # 0 THEN Append(l1, c) ELSE l1
      pParent == GetParent(g, pKF)
      bParent == pParent # 0 /\ pParent \notin Range(l2)
  IN [local |-> IF bParent THEN Append(l2, pParent) ELSE l2,
      break |-> bParent]

\* the members of the tracker that UpdateLocalKeyFrames leaves alone
LocalKFsUnchanged ==
  UNCHANGED <<mState, mLastProcessedState, mSensor, usePattern, mpReplaced,
              driver, mpInitializer, mLastFrame, mInitialFrame,
              mnLastRelocFrameId, mnLastKeyFrameId, mpLastKeyFrame,
              mmStarted, lastRelativePose_, FrameNextId, KeyFrameNextId,
              mapKFs, mapMPs, lmQueue, unlinked, mapLock, trackPC, nGrabs,
              nResets>>

InitLocalKFs ==
  /\ mState = "OK"
  /\ mLastProcessedState = "OK"
  /\ mSensor = "MONOCULAR"
  /\ usePattern = FALSE
  /\ mpInitializer = FALSE
  /\ mpReferenceKF = SomeKF(1)
  /\ mpLastKeyFrame = SomeKF(1)
  /\ mCurrentFrame = [NewFrame(5, 600, 0) EXCEPT !.pose = "T",
                                                 !.refKF = SomeKF(1)]
  /\ mLastFrame = [NewFrame(4, 600, 0) EXCEPT !.pose = "T",
                                              !.refKF = SomeKF(1)]
  /\ mInitialFrame = NoFrame
  /\ mnLastRelocFrameId = 0
  /\ mnLastKeyFrameId = 0
  /\ mmStarted = TRUE
  /\ lastRelativePose_ = "T"
  /\ FrameNextId = 6
  /\ KeyFrameNextId = 1
  /\ mapKFs = <<SomeKF(1)>>
  /\ mapMPs = 100
  /\ lmQueue = <<>>
  /\ unlinked = {}
  /\ mapLock = "Tracking"
  /\ trackPC = "locked"
  /\ nGrabs = 0
  /\ nResets = 0
  /\ mpReplaced = <<>>
  /\ driver = "running"
  /\ \E g \in Graphs :
       obs = [op |-> "None", g |-> g, mvpLocalKeyFrames |-> <<4000>>,
              itKF |-> 0, itEndKF |-> 0, pKFmax |-> 0, stopped |-> "no"]

\* void Tracking::UpdateLocalKeyFrames(), up to the second loop: the votes,
\* the return without voters, the voters that are not bad and pKFmax
UpdateLocalKeyFrames ==
  /\ obs.op = "None"
  /\ IF obs.g.V = 0
       THEN obs' = [obs EXCEPT !.op = "UpdateLocalKeyFrames",
                               !.stopped = "empty"]
       ELSE obs' = [obs EXCEPT !.op = "Neighbours",
                               !.mvpLocalKeyFrames = GoodVoters(obs.g),
                               !.itKF = 1,
                               !.itEndKF = Len(GoodVoters(obs.g)),
                               !.pKFmax = MaxVoter(obs.g)]
  /\ UNCHANGED <<mCurrentFrame, mpReferenceKF>>
  /\ LocalKFsUnchanged

\* UpdateLocalKeyFrames, one turn of the second loop
IncludeNeighbours ==
  /\ obs.op = "Neighbours"
  /\ obs.stopped = "no"
  /\ IF obs.itKF > obs.itEndKF
       THEN obs' = [obs EXCEPT !.stopped = "end"]
     ELSE IF Len(obs.mvpLocalKeyFrames) > ThLocalKeyFrames
       THEN obs' = [obs EXCEPT !.stopped = "limit"]
     ELSE LET r == IncludeAround(obs.g, obs.mvpLocalKeyFrames[obs.itKF],
                                 obs.mvpLocalKeyFrames)
          IN obs' = [obs EXCEPT !.mvpLocalKeyFrames = r.local,
                                !.itKF = obs.itKF + 1,
                                !.stopped = IF r.break THEN "parent"
                                            ELSE "no"]
  /\ UNCHANGED <<mCurrentFrame, mpReferenceKF>>
  /\ LocalKFsUnchanged

\* UpdateLocalKeyFrames after the second loop: "if (pKFmax) { mpReferenceKF
\* = pKFmax; mCurrentFrame.mpReferenceKF = mpReferenceKF; }"
SetReferenceKF ==
  /\ obs.op = "Neighbours"
  /\ obs.stopped # "no"
  /\ mpReferenceKF' = IF obs.pKFmax # 0 THEN SomeKF(obs.pKFmax)
                      ELSE mpReferenceKF
  /\ mCurrentFrame' = IF obs.pKFmax # 0
                        THEN [mCurrentFrame EXCEPT !.refKF = mpReferenceKF']
                        ELSE mCurrentFrame
  /\ obs' = [obs EXCEPT !.op = "UpdateLocalKeyFrames"]
  /\ LocalKFsUnchanged

NextLocalKFs == UpdateLocalKeyFrames \/ IncludeNeighbours \/ SetReferenceKF

SpecLocalKFs == InitLocalKFs /\ [][NextLocalKFs]_vars

----------------------------------------------------------------------------
\* main() of the monocular driver and Config::ReadParameters: the program
\* from its start to its exit

\* images the driver passes to the system in one run
MaxImages == 2

\* some of the parameters ReadParameters reads
Keys == {"Camera.fx", "Camera.fps", "ThDepth"}

\* Config::Config(): the values before a file is read
Defaults == [k \in Keys |-> CASE k = "Camera.fx" -> 500
                                [] k = "Camera.fps" -> 30
                                [] k = "ThDepth" -> 40]

\* the value a file gives to a parameter it names
FileValue == [k \in Keys |-> CASE k = "Camera.fx" -> 718
                                 [] k = "Camera.fps" -> 10
                                 [] k = "ThDepth" -> 35]

\* what cv::FileStorage::open does with the file: it opens it, it leaves the
\* storage closed (file missing or unreadable), or it throws cv::Exception
\* (file that cannot be parsed); and the parameters an opened file names
ConfigFiles ==
  { [open |-> "opened", named |-> n] : n \in SUBSET Keys }
  \cup { [open |-> o, named |-> {}] : o \in {"closed", "threw"} }

\* argc of the run
ArgCounts == 1..4

\* a ReadParameters that catches the exception and goes on
ReadParametersLenient(file) ==
  IF file.open = "closed"
    THEN [ok |-> FALSE, params |-> Defaults]
    ELSE [ok |-> TRUE,
          params |-> [k \in Keys |-> IF k \in file.named THEN FileValue[k]
                                     ELSE Defaults[k]]]

\* Config::ReadParameters
ReadParameters(file) ==
  IF file.open = "closed" THEN [ok |-> FALSE, params |-> Defaults]
  ELSE IF file.open = "threw" THEN [ok |-> FALSE, params |-> Defaults]
  ELSE [ok |-> TRUE,
        params |-> [k \in Keys |-> IF k \in file.named THEN FileValue[k]
                                   ELSE Defaults[k]]]

InitMain ==
  /\ mState = "NO_IMAGES_YET"
  /\ mLastProcessedState = "NO_IMAGES_YET"
  /\ mSensor = "MONOCULAR"
  /\ usePattern = FALSE
  /\ mpInitializer = FALSE
  /\ mCurrentFrame = NoFrame
  /\ mLastFrame = NoFrame
  /\ mInitialFrame = NoFrame
  /\ mnLastRelocFrameId = 0
  /\ mnLastKeyFrameId = 0
  /\ mpLastKeyFrame = NoKF
  /\ mpReferenceKF = NoKF
  /\ mmStarted = FALSE
  /\ lastRelativePose_ = "Zero"
  /\ FrameNextId = 0
  /\ KeyFrameNextId = 0
  /\ mapKFs = <<>>
  /\ mapMPs = 0
  /\ lmQueue = <<>>
  /\ unlinked = {}
  /\ mapLock = "free"
  /\ trackPC = "idle"
  /\ nGrabs = 0
  /\ nResets = 0
  /\ mpReplaced = <<>>
  /\ \E argc \in ArgCounts, file \in ConfigFiles :
       driver = [pc |-> "args", argc |-> argc, file |-> file,
                 params |-> Defaults, read |-> "None", system |-> FALSE,
                 loaded |-> FALSE, images |-> 0, status |-> -1]
  /\ obs = [op |-> "None"]

\* the tracker is not touched by the steps of main() modelled here
MainFrame ==
  UNCHANGED <<mState, mLastProcessedState, mSensor, usePattern, mpReplaced,
              mpInitializer, mCurrentFrame, mLastFrame, mInitialFrame,
              mnLastRelocFrameId, mnLastKeyFrameId, mpLastKeyFrame,
              mpReferenceKF, mmStarted, lastRelativePose_, FrameNextId,
              KeyFrameNextId, mapKFs, mapMPs, lmQueue, unlinked, mapLock,
              trackPC, nGrabs, nResets>>

\* "if (argc != 2 && argc != 3) { ... return 1; }"
MainCheckArgs ==
  /\ driver.pc = "args"
  /\ driver' = IF driver.argc # 2 /\ driver.argc # 3
                 THEN [driver EXCEPT !.pc = "exited", !.status = 1]
                 ELSE [driver EXCEPT !.pc = "read"]
  /\ obs' = [op |-> "CheckArgs"]
  /\ MainFrame

\* "if (!config.ReadParameters(argv[1])) { ... return 1; }"
MainReadParameters ==
  /\ driver.pc = "read"
  /\ LET r == ReadParameters(driver.file)
     IN driver' = IF ~r.ok
                    THEN [driver EXCEPT !.pc = "exited", !.status = 1,
                                        !.read = "false"]
                    ELSE [driver EXCEPT !.pc = "create", !.read = "true",
                                        !.params = r.params]
  /\ obs' = [op |-> "ReadParameters"]
  /\ MainFrame

\* "SD_SLAM::System SLAM(SD_SLAM::System::MONOCULAR, true);" and, with a
\* third argument, "SLAM.LoadTrajectory(string(argv[2]));"
MainCreateSystem ==
  /\ driver.pc = "create"
  /\ driver' = [driver EXCEPT !.pc = "loop", !.system = TRUE,
                              !.loaded = (driver.argc = 3)]
  /\ obs' = [op |-> "CreateSystem"]
  /\ MainFrame

\* one turn of the loop with a new image: SLAM.TrackMonocular(im, src)
MainTrackImage ==
  /\ driver.pc = "loop"
  /\ driver.images < MaxImages
  /\ driver' = [driver EXCEPT !.images = @ + 1]
  /\ obs' = [op |-> "TrackMonocular"]
  /\ MainFrame

\* "if (useViewer && viewer->isFinished()) { ros::shutdown(); return 0; }"
MainViewerFinished ==
  /\ driver.pc = "loop"
  /\ driver' = [driver EXCEPT !.pc = "exited", !.status = 0]
  /\ obs' = [op |-> "ViewerFinished"]
  /\ MainFrame

\* the loop ends (ros::ok() false or a stop requested): SLAM.Shutdown(), the
\* trajectory is saved, "return 0;"
MainShutdown ==
  /\ driver.pc = "loop"
  /\ driver' = [driver EXCEPT !.pc = "exited", !.status = 0,
                              !.system = FALSE]
  /\ obs' = [op |-> "Shutdown"]
  /\ MainFrame

NextMain ==
  \/ MainCheckArgs
  \/ MainReadParameters
  \/ MainCreateSystem
  \/ MainTrackImage
  \/ MainViewerFinished
  \/ MainShutdown

SpecMain == InitMain /\ [][NextMain]_vars

----------------------------------------------------------------------------
\* The loop of main() and the ImageReader: images arrive on the topic at any
\* time, ReadImage is run for them by ros::spinOnce, and the loop hands the
\* image of the reader to TrackMonocular

\* images published on the topic in one run
MaxMessages == 3

\* channels of the images published
ImageChannels == {1, 2, 3}

\* cv::Mat(): no image
NoImage == [id |-> 0, ch |-> 1]

\* a subscriber whose callbacks are run by a thread of their own
CallbackAnywhere(pc) == TRUE

\* the subscriber's callbacks are run by "ros::spinOnce()" of the loop
CallbackMayRun(pc) == pc = "spinOnce"

\* main() has made the reader ("channels_ = 0; updated_ = false;") and
\* subscribed, and enters the loop
InitReader ==
  /\ mState = "NO_IMAGES_YET"
  /\ mLastProcessedState = "NO_IMAGES_YET"
  /\ mSensor = "MONOCULAR"
  /\ usePattern = FALSE
  /\ mpInitializer = FALSE
  /\ mCurrentFrame = NoFrame
  /\ mLastFrame = NoFrame
  /\ mInitialFrame = NoFrame
  /\ mnLastRelocFrameId = 0
  /\ mnLastKeyFrameId = 0
  /\ mpLastKeyFrame = NoKF
  /\ mpReferenceKF = NoKF
  /\ mmStarted = FALSE
  /\ lastRelativePose_ = "Zero"
  /\ FrameNextId = 0
  /\ KeyFrameNextId = 0
  /\ mapKFs = <<>>
  /\ mapMPs = 0
  /\ lmQueue = <<>>
  /\ unlinked = {}
  /\ mapLock = "free"
  /\ trackPC = "idle"
  /\ nGrabs = 0
  /\ nResets = 0
  /\ mpReplaced = <<>>
  /\ driver = [pc |-> "HasNewImage", published |-> 0, queue |-> <<>>,
               img_ |-> NoImage, channels_ |-> 0, updated_ |-> FALSE,
               n |-> 0, im |-> NoImage, im_rgb |-> NoImage]
  /\ obs = [op |-> "main", handed |-> <<>>]

\* an image arrives on the topic; the subscriber keeps the newest one
\* ("n.subscribe(config.CameraTopic(), 1, ...)")
PublishImage ==
  /\ driver.pc # "done"
  /\ driver.published < MaxMessages
  /\ \E ch \in ImageChannels :
       driver' = [driver EXCEPT
                    !.published = driver.published + 1,
                    !.queue = <<[id |-> driver.published + 1, ch |-> ch]>>]
  /\ UNCHANGED obs
  /\ MainFrame

\* void ReadImage(msg), for the image that waits; bOK is false when
\* cv_bridge::toCvShare throws
ReadImage ==
  /\ driver.pc # "done"
  /\ CallbackMayRun(driver.pc)
  /\ driver.queue # <<>>
  /\ \E bOK \in BOOLEAN :
       driver' = IF bOK
                   THEN [driver EXCEPT !.queue = <<>>,
                                       !.img_ = driver.queue[1],
                                       !.channels_ = driver.queue[1].ch,
                                       !.updated_ = TRUE]
                   ELSE [driver EXCEPT !.queue = <<>>]
  /\ UNCHANGED obs
  /\ MainFrame

\* "if (reader.HasNewImage())"
HasNewImage ==
  /\ driver.pc = "HasNewImage"
  /\ driver' = [driver EXCEPT !.pc = IF driver.updated_ THEN "NumChannels"
                                     ELSE "spinOnce"]
  /\ UNCHANGED obs
  /\ MainFrame

\* "if (reader.NumChannels() == 1)"
NumChannels ==
  /\ driver.pc = "NumChannels"
  /\ driver' = [driver EXCEPT !.pc = "GetImage", !.n = driver.channels_]
  /\ UNCHANGED obs
  /\ MainFrame

\* "reader.GetImage(im)" or "reader.GetImage(im_rgb)"
GetImage ==
  /\ driver.pc = "GetImage"
  /\ driver' = IF driver.n = 1
                 THEN [driver EXCEPT !.pc = "TrackMonocular",
                                     !.im = driver.img_,
                                     !.updated_ = FALSE]
                 ELSE [driver EXCEPT !.pc = "cvtColor",
                                     !.im_rgb = driver.img_,
                                     !.updated_ = FALSE]
  /\ UNCHANGED obs
  /\ MainFrame

\* "cv::cvtColor(im_rgb, im, CV_RGB2GRAY)": one channel out of three or four,
\* an exception for any other image
CvtColor ==
  /\ driver.pc = "cvtColor"
  /\ driver' = IF driver.im_rgb.ch \in {3, 4}
                 THEN [driver EXCEPT !.pc = "TrackMonocular",
                                     !.im = [driver.im_rgb EXCEPT !.ch = 1]]
                 ELSE [driver EXCEPT !.pc = "done"]
  /\ UNCHANGED obs
  /\ MainFrame

\* "SLAM.TrackMonocular(im, src)": obs.handed lists the images handed over,
\* each with the channels NumChannels gave and those of the image GetImage
\* copied
TrackMonocular ==
  /\ driver.pc = "TrackMonocular"
  /\ driver' = [driver EXCEPT !.pc = "spinOnce"]
  /\ obs' = [obs EXCEPT !.handed =
               Append(obs.handed,
                      [id |-> driver.im.id, ch |-> driver.im.ch,
                       n |-> driver.n,
                       copied |-> IF driver.n = 1 THEN driver.im.ch
                                  ELSE driver.im_rgb.ch])]
  /\ MainFrame

\* "ros::spinOnce(); r.sleep();" are over; the loop goes on or, the viewer
\* finished or a stop requested, main() ends
SpinOnce ==
  /\ driver.pc = "spinOnce"
  /\ \E bGoOn \in BOOLEAN :
       driver' = [driver EXCEPT !.pc = IF bGoOn THEN "HasNewImage"
                                       ELSE "done"]
  /\ UNCHANGED obs
  /\ MainFrame

NextReader ==
  \/ PublishImage
  \/ ReadImage
  \/ HasNewImage
  \/ NumChannels
  \/ GetImage
  \/ CvtColor
  \/ TrackMonocular
  \/ SpinOnce

SpecReader == InitReader /\ [][NextReader]_vars

----------------------------------------------------------------------------
\* Properties of the tracker state machine

\* the steps that belong to a Grab* / Track() call
CallOps == {"Grab", "Acquire", "StereoInit", "PatternInit", "MonoInit", "Track"}

\* the steps of Track() after the map mutex is taken
BodyOps == {"StereoInit", "PatternInit", "MonoInit", "Track"}

\* the edges the specification lists
ListedEdges ==
  { <<"NO_IMAGES_YET", "NOT_INITIALIZED">>, <<"NOT_INITIALIZED", "OK">>,
    <<"OK", "LOST">>, <<"LOST", "OK">>, <<"LOST", "NOT_INITIALIZED">> }

\* the edges Grab* / Track() calls make
CallEdges ==
  { <<"NO_IMAGES_YET", "NOT_INITIALIZED">>, <<"NOT_INITIALIZED", "OK">>,
    <<"OK", "LOST">>, <<"LOST", "OK">>,
    <<"LOST", "NO_IMAGES_YET">>, <<"NOT_INITIALIZED", "NO_IMAGES_YET">> }

\* C1 as stated: during Grab* / Track calls mState changes only along
\* NO_IMAGES_YET -> NOT_INITIALIZED, NOT_INITIALIZED -> OK, OK -> LOST,
\* LOST -> OK and LOST -> NOT_INITIALIZED, and no Track call leaves
\* NOT_INITIALIZED for a state other than OK.
C1_ListedEdgesOnly ==
  obs.op \in CallOps => obs.edges \subseteq ListedEdges

\* C1, amended: during Grab* / Track calls mState changes only along
\* NO_IMAGES_YET -> NOT_INITIALIZED, NOT_INITIALIZED -> OK, OK -> LOST,
\* LOST -> OK, and into NO_IMAGES_YET by a reset made inside Track: from LOST
\* (early loss) and from NOT_INITIALIZED (wrong monocular initialization);
\* reset() of the driver moves any state to NO_IMAGES_YET.  NOT_INITIALIZED
\* never moves to LOST and LOST never moves to NOT_INITIALIZED.
C1_StateEdges ==
  /\ obs.op \in CallOps => obs.edges \subseteq CallEdges
  /\ obs.op = "Reset" =>
       obs.edges \subseteq { <<s, "NO_IMAGES_YET">> : s \in States }
  /\ obs.op = "LocalMapping" => obs.edges = {}
  /\ <<"NOT_INITIALIZED", "LOST">> \notin obs.edges
  /\ <<"LOST", "NOT_INITIALIZED">> \notin obs.edges
  /\ obs.op \in BodyOps /\ obs.entry = "NOT_INITIALIZED" =>
       mState \in {"NOT_INITIALIZED", "OK", "NO_IMAGES_YET"}

\* a Track call left NOT_INITIALIZED for NO_IMAGES_YET: the monocular
\* initialization was wrong and Reset ran
C1_Witness ==
  /\ obs.op = "MonoInit"
  /\ obs.edges = { <<"NOT_INITIALIZED", "NO_IMAGES_YET">> }
  /\ mState = "NO_IMAGES_YET"

\* C2: in a Track call entered in OK or LOST the state committed is OK iff
\* the initial pose estimation succeeded and TrackLocalMap counted at least
\* 15 inliers; otherwise it is LOST.
C2_CommitRule ==
  obs.op = "Track" =>
    /\ obs.entry \in {"OK", "LOST"}
    /\ obs.commit \in {"OK", "LOST"}
    /\ obs.commit = "OK" <=> (obs.bOKini /\ obs.lmRan /\ obs.inliers >= 15)
    /\ obs.commit = "OK" => mState = "OK"
    /\ obs.commit = "LOST" => mState \in {"LOST", "NO_IMAGES_YET"}

\* a frame committed OK with exactly 15 inliers
C2_Witness ==
  /\ obs.op = "Track"
  /\ obs.bOKini /\ obs.lmRan /\ obs.inliers = 15
  /\ obs.commit = "OK" /\ mState = "OK"

\* C3 as stated: the pose a Grab* call returns is the zero matrix iff the
\* state after the frame is not OK.
C3_ZeroPoseIffNotOk ==
  obs.op \in BodyOps => (obs.ret = "Zero" <=> mState # "OK")

\* C4 as stated: the map mutex is held for the whole of every Track() call,
\* every read and write of mState included.
C4_LockedThroughout ==
  trackPC # "idle" => mapLock = "Tracking"

\* C4, amended: the map mutex is held from its acquisition, after Track()
\* has promoted NO_IMAGES_YET to NOT_INITIALIZED and copied mState to
\* mLastProcessedState, until Track() returns.  The initialization, the
\* tracking of the frame, every other change of mState and every change of
\* the Map happen under it; before it Track changes mState only along
\* NO_IMAGES_YET -> NOT_INITIALIZED and leaves the Map alone.
C4_LockedBody ==
  /\ trackPC = "locked" => mapLock = "Tracking"
  /\ trackPC = "idle" => mapLock = "free"
  /\ obs.op \in BodyOps => obs.held = "Tracking"
  /\ obs.op = "Grab" =>
       /\ obs.edges \subseteq { <<"NO_IMAGES_YET", "NOT_INITIALIZED">> }
       /\ ~obs.mapTouched
  /\ trackPC = "lock" => mLastProcessedState = mState

\* a frame was tracked and mState changed with the mutex held
C4_Witness ==
  /\ obs.op = "Track"
  /\ obs.held = "Tracking"
  /\ obs.edges = { <<"OK", "LOST">> }
  /\ mapLock = "free"

\* C5: after Reset the tracker is in NO_IMAGES_YET, the Map has no keyframes
\* and no map points, the motion model is cold, the initializer is gone and
\* the stored relative pose is zero.
C5_ResetPost ==
  obs.op = "Reset" =>
    /\ mState = "NO_IMAGES_YET"
    /\ mapKFs = <<>> /\ mapMPs = 0
    /\ ~mmStarted
    /\ ~mpInitializer
    /\ lastRelativePose_ = "Zero"

\* reset() came while the tracker was in OK with keyframes in the Map
C5_Witness ==
  /\ obs.op = "Reset"
  /\ obs.entry = "OK"
  /\ obs.nKFsChk >= 2
  /\ mState = "NO_IMAGES_YET"

\* C6: in a Track call entered in OK or LOST the system reset is called iff
\* the frame ends LOST and the Map holds at most 5 keyframes; with more the
\* tracker stays LOST and nothing is reset.
C6_EarlyLossReset ==
  obs.op = "Track" =>
    /\ obs.sysReset <=> (obs.commit = "LOST" /\ obs.nKFsChk <= 5)
    /\ obs.commit = "LOST" /\ obs.nKFsChk > 5 =>
         mState = "LOST" /\ Len(mapKFs) = obs.nKFsChk
    /\ obs.commit = "LOST" => obs.nKFsChk >= 0

\* a frame was lost with 6 keyframes in the Map: no reset
C6_Witness ==
  /\ obs.op = "Track"
  /\ obs.commit = "LOST"
  /\ obs.nKFsChk = 6
  /\ ~obs.sysReset
  /\ mState = "LOST"

C9_RelocMeansOk ==
  obs.op = "Track" /\ obs.entry = "LOST" =>
    /\ obs.first = "Reloc"
    /\ obs.bOKini => obs.commit = "OK"

\* C9, amended: a Track call entered in LOST uses only Relocalization; when
\* it succeeds mnLastRelocFrameId becomes the id of the frame and
\* TrackLocalMap runs, and the frame ends in OK iff TrackLocalMap counts at
\* least 15 inliers, in LOST otherwise.
C9_RelocThenLocalMap ==
  obs.op = "Track" /\ obs.entry = "LOST" =>
    /\ obs.first = "Reloc" /\ ~obs.retried
    /\ ~obs.bOKini => obs.commit = "LOST" /\ ~obs.lmRan
    /\ obs.bOKini =>
         /\ obs.lmRan
         /\ mnLastRelocFrameId = mCurrentFrame.mnId
         /\ obs.commit = "OK" <=> obs.inliers >= 15
         /\ obs.commit = "LOST" <=> obs.inliers < 15

\* Relocalization succeeded and TrackLocalMap lost the frame
C9_Witness ==
  /\ obs.op = "Track" /\ obs.entry = "LOST"
  /\ obs.first = "Reloc" /\ obs.bOKini
  /\ obs.inliers = 14
  /\ obs.commit = "LOST"

\* C10 as stated: an RGBD frame with exactly 500 keypoints of valid depth
\* leaves the tracker in NOT_INITIALIZED and the Map unchanged, one with 501
\* enters OK, whatever the number of keypoints without depth.
C10_DepthBoundary ==
  obs.op = "StereoInit" =>
    /\ mCurrentFrame.nDepth = 500 =>
         mState = "NOT_INITIALIZED" /\ ~obs.mapTouched
    /\ mCurrentFrame.nDepth = 501 => mState = "OK"

\* C11: after a successful RGBD bootstrap the pose of the current frame is
\* the identity, the Map holds exactly one keyframe, there is one MapPoint
\* per keypoint with positive depth, each observing the keyframe, held by it
\* and stored in the frame, the keyframe is the reference keyframe, it is
\* in the LocalMapper queue exactly once, and the state is OK.
C11_StereoBootstrap ==
  obs.op = "StereoInit" /\ obs.edges # {} =>
    /\ mState = "OK"
    /\ mCurrentFrame.pose = "I"
    /\ Len(mapKFs) = 1
    /\ mapKFs[1].pose = "I" /\ mapKFs[1].fid = mCurrentFrame.mnId
    /\ mapMPs = mCurrentFrame.nDepth
    /\ mapKFs[1].added = mCurrentFrame.nDepth
    /\ mapKFs[1].uid \notin unlinked
    /\ mCurrentFrame.inMap = mCurrentFrame.nDepth
    /\ mpReferenceKF = mapKFs[1] /\ mCurrentFrame.refKF = mapKFs[1]
    /\ lmQueue = <<mapKFs[1]>>

\* an RGBD frame with keypoints without depth bootstrapped the map
C11_Witness ==
  /\ obs.op = "StereoInit" /\ obs.edges = { <<"NOT_INITIALIZED", "OK">> }
  /\ mCurrentFrame.N = 600 /\ mCurrentFrame.nDepth = 500
  /\ mapMPs = 500

\* the last step was a monocular map creation that was rejected
MonoMapRejected ==
  obs.op = "MonoInit" /\ obs.mapTouched /\ mState # "OK"

\* C12 as stated: when the monocular map creation is rejected the
\* initializer is reset, the tracker is still in NOT_INITIALIZED when the
\* Track call ends and nothing is in the LocalMapper queue.
C12_StaysNotInitialized ==
  MonoMapRejected =>
    mState = "NOT_INITIALIZED" /\ ~mpInitializer /\ lmQueue = <<>>

\* C12, amended: when the monocular map creation is rejected (negative
\* median depth or fewer than 100 tracked points) Reset runs: the Track call
\* ends in NO_IMAGES_YET with the initializer gone, the Map empty, the frame
\* and keyframe counters at 0 and nothing in the LocalMapper queue; a map
\* with fewer than 100 tracked points is never accepted; and the frame that
\* comes next, if it has more than 100 keypoints, is stored as the initial
\* frame of a new bootstrap.
C12_RejectedMapResets ==
  /\ MonoMapRejected =>
       /\ mState = "NO_IMAGES_YET"
       /\ ~mpInitializer
       /\ lmQueue = <<>> /\ mapKFs = <<>> /\ mapMPs = 0
       /\ FrameNextId = 0 /\ KeyFrameNextId = 0
  /\ obs.op = "MonoInit" /\ obs.mapTouched /\ mState = "OK" =>
       mCurrentFrame.inMap >= 100
  /\ obs.op = "MonoInit" /\ mCurrentFrame.mnId = 0 /\ mCurrentFrame.N > 100 =>
       /\ mState = "NOT_INITIALIZED"
       /\ mpInitializer
       /\ mInitialFrame = mCurrentFrame

\* a monocular map with 99 tracked points was rejected
C12_Witness ==
  /\ MonoMapRejected
  /\ mCurrentFrame.inMap = 99
  /\ mState = "NO_IMAGES_YET"

\* C13 as stated: with the pattern bootstrap on, every NOT_INITIALIZED
\* frame showing the pattern enters OK with pose identity, one new keyframe
\* and one MapPoint per pattern point, whatever its number of keypoints.
C13_PatternAnyKeypoints ==
  obs.op = "PatternInit" /\ obs.detected =>
    /\ mState = "OK"
    /\ mCurrentFrame.pose = "I"
    /\ Len(mapKFs) = 1
    /\ mapMPs = mapKFs[1].added

\* C13, amended: with the pattern bootstrap on, a NOT_INITIALIZED frame
\* enters OK iff it has more than 500 keypoints and shows the pattern; it
\* then has pose identity, the Map holds one keyframe, the reference
\* keyframe, queued once, and one MapPoint per pattern point, held by the
\* keyframe and the frame.  Any other frame leaves state and Map as they are.
C13_PatternNeedsKeypoints ==
  obs.op = "PatternInit" =>
    /\ mState = "OK" <=> (obs.detected /\ mCurrentFrame.N > 500)
    /\ mState = "OK" =>
         /\ mCurrentFrame.pose = "I"
         /\ Len(mapKFs) = 1
         /\ mapKFs[1].added \in PatternPoints
         /\ mapMPs = mapKFs[1].added
         /\ mCurrentFrame.inMap = mapKFs[1].added
         /\ mapKFs[1].uid \notin unlinked
         /\ mpReferenceKF = mapKFs[1]
         /\ lmQueue = <<mapKFs[1]>>
    /\ mState # "OK" =>
         /\ mState = "NOT_INITIALIZED"
         /\ mapKFs = <<>> /\ mapMPs = 0 /\ lmQueue = <<>>
         /\ mCurrentFrame.pose = "Zero"

\* a frame with 101 keypoints showed the pattern and was left aside
C13_Witness ==
  /\ obs.op = "PatternInit" /\ obs.detected
  /\ mCurrentFrame.N = 101
  /\ mState = "NOT_INITIALIZED"

----------------------------------------------------------------------------
\* Properties of the keyframe predicate (under SpecKF)

\* the last step evaluated NeedNewKeyFrame
Evaluated == obs.op = "NeedNewKeyFrame"

\* frames since the last keyframe
FramesSinceKF == mCurrentFrame.mnId - mnLastKeyFrameId

\* admission is suppressed
Suppressed ==
  \/ obs.m.stopped \/ obs.m.stopReq
  \/ (mCurrentFrame.mnId < mnLastRelocFrameId + Fps /\ Len(mapKFs) > Fps)

CloseNeeded == obs.c.tracked < 100 /\ obs.c.non > 70

Cond1a == FramesSinceKF >= Fps

Cond1b == FramesSinceKF >= 0 /\ obs.m.idle

Cond1c ==
  mSensor = "RGBD" /\ (4 * obs.inliers < obs.nRefMatches \/ CloseNeeded)

\* thRefRatio x ref_tracked_points, times 100
RefBound ==
  IF mSensor # "RGBD" THEN 90 * obs.nRefMatches
  ELSE IF Len(mapKFs) >= 2 THEN 75 * obs.nRefMatches
  ELSE 40 * obs.nRefMatches

Cond2 ==
  obs.inliers > 15 /\ (100 * obs.inliers < RefBound \/ CloseNeeded)

\* C14: when admission is not suppressed and the LocalMapper accepts
\* keyframes, NeedNewKeyFrame returns true iff (c1a or c1b or c1c) and c2.
C14_AdmissionWhenIdle ==
  Evaluated /\ ~Suppressed /\ obs.m.idle =>
    (obs.need <=> ((Cond1a \/ Cond1b \/ Cond1c) /\ Cond2))

\* a frame with 16 inliers was admitted by an idle LocalMapper
C14_Witness ==
  /\ Evaluated /\ ~Suppressed /\ obs.m.idle
  /\ obs.inliers = 16 /\ Cond2
  /\ obs.need

\* C15 as stated: with c2 true, the LocalMapper idle and no suppression,
\* NeedNewKeyFrame returns false MaxFrames - 1 frames after the last
\* keyframe and true MaxFrames frames after it.
C15_BoundaryWhenIdle ==
  Evaluated /\ ~Suppressed /\ obs.m.idle /\ Cond2 =>
    /\ FramesSinceKF = Fps - 1 => ~obs.need
    /\ FramesSinceKF = Fps => obs.need

\* C15, amended: with c2 true, the LocalMapper idle and no suppression,
\* NeedNewKeyFrame returns true MaxFrames - 1 frames after the last keyframe
\* as well as MaxFrames frames after it, because c1b holds for every frame
\* (MinFrames = 0).  The boundary at MaxFrames decides only when the
\* LocalMapper is busy: for RGBD with fewer than 3 queued keyframes, c2 true
\* and c1c false it returns false at MaxFrames - 1 and true at MaxFrames; for
\* the other sensors a busy LocalMapper gets no keyframe at all.
C15_BoundaryWhenBusy ==
  /\ Evaluated /\ ~Suppressed /\ obs.m.idle /\ Cond2 =>
       /\ FramesSinceKF = Fps - 1 => obs.need
       /\ FramesSinceKF = Fps => obs.need
  /\ Evaluated /\ ~Suppressed /\ ~obs.m.idle /\ Cond2 /\ ~Cond1c
     /\ mSensor = "RGBD" /\ Len(lmQueue) < 3 =>
       /\ FramesSinceKF = Fps - 1 => ~obs.need
       /\ FramesSinceKF = Fps => obs.need
       /\ obs.need <=> FramesSinceKF >= Fps
  /\ Evaluated /\ ~obs.m.idle /\ mSensor # "RGBD" => ~obs.need

\* a busy LocalMapper got an RGBD keyframe exactly MaxFrames after the last
C15_Witness ==
  /\ Evaluated /\ ~Suppressed /\ ~obs.m.idle /\ Cond2 /\ ~Cond1c
  /\ mSensor = "RGBD" /\ Len(lmQueue) < 3
  /\ FramesSinceKF = Fps
  /\ obs.need

----------------------------------------------------------------------------
\* Properties of the keyframe decision inside Track (under Spec)

\* C16: when the LocalMapper is stopped or has a stop requested as
\* NeedNewKeyFrame is evaluated, that Track call creates and queues no
\* keyframe, even if (c1a or c1b or c1c) and c2 hold, InterruptBA is not
\* called, and the frame ends in OK.
C16_StoppedMapperNoKeyFrame ==
  [][obs'.op = "Track" /\ obs'.stopped =>
       /\ lmQueue' = lmQueue
       /\ KeyFrameNextId' = KeyFrameNextId
       /\ mapMPs' = mapMPs
       /\ mpLastKeyFrame' = mpLastKeyFrame
       /\ obs'.kf = "NotNeeded"
       /\ ~obs'.interruptBA
       /\ obs'.commit = "OK"
       /\ mState' = "OK"]_vars

\* a tracked frame that met (c1a or c1b or c1c) and c2 while the LocalMapper
\* was stopped
C16_Witness ==
  /\ obs.op = "Track"
  /\ obs.stopped
  /\ obs.wanted
  /\ obs.kf = "NotNeeded"
  /\ mState = "OK"

\* C17: when SetNotStop(true) is refused in CreateNewKeyFrame, no KeyFrame
\* and no MapPoint is created, nothing enters the LocalMapper queue, and the
\* last-keyframe pointer, the last-keyframe frame id and the reference
\* keyframe are not set to a new keyframe.
C17_RefusedCreatesNothing ==
  [][obs'.op = "Track" /\ obs'.kf = "Refused" =>
       /\ KeyFrameNextId' = KeyFrameNextId
       /\ mapMPs' = mapMPs
       /\ mapKFs' = mapKFs
       /\ lmQueue' = lmQueue
       /\ mpLastKeyFrame' = mpLastKeyFrame
       /\ mnLastKeyFrameId' = mnLastKeyFrameId
       /\ mpReferenceKF' \in Range(mapKFs) \cup {mpReferenceKF}]_vars

\* a frame that needed a keyframe and was refused by SetNotStop(true)
C17_Witness ==
  /\ obs.op = "Track"
  /\ obs.kf = "Refused"
  /\ obs.wanted
  /\ ~obs.stopped
  /\ mState = "OK"

----------------------------------------------------------------------------
\* Order of the keyframes handed to the LocalMapper (under Spec)

\* the step called InsertKeyFrame
QueueGrew == Len(lmQueue') > Len(lmQueue)

\* the keyframe inserted before the i-th of the queue: mpLastKeyFrame is set
\* to the keyframe inserted last by every caller of InsertKeyFrame
InsertedBefore(i) ==
  IF i = Len(lmQueue) + 1 THEN mpLastKeyFrame ELSE lmQueue'[i - 1]

\* C18: keyframes enter the LocalMapper queue at its end and in the order of
\* the frames they were made of: each inserted keyframe comes from a later
\* frame of the run than the keyframe inserted before it (the monocular
\* bootstrap inserts the initial frame's keyframe, then the current one's),
\* so no keyframe is inserted twice.
C18_TrackingOrder ==
  [][QueueGrew =>
       /\ SubSeq(lmQueue', 1, Len(lmQueue)) = lmQueue
       /\ \A i \in (Len(lmQueue) + 1)..Len(lmQueue') :
             /\ InsertedBefore(i).nth < lmQueue'[i].nth
             /\ InsertedBefore(i).uid # lmQueue'[i].uid
             /\ \A j \in 1..(i - 1) : lmQueue'[j].uid # lmQueue'[i].uid
       /\ mpLastKeyFrame' = lmQueue'[Len(lmQueue')]]_vars

\* the two keyframes of a monocular bootstrap and a later keyframe wait in
\* the queue
C18_Witness ==
  /\ mSensor = "MONOCULAR"
  /\ Len(lmQueue) >= 3
  /\ lmQueue[1].nth < lmQueue[2].nth
  /\ lmQueue[2].nth < lmQueue[3].nth
  /\ mpLastKeyFrame = lmQueue[Len(lmQueue)]

----------------------------------------------------------------------------
\* Frame and KeyFrame ids (under Spec)

\* the keyframes alive in the system
LiveKFs == Range(mapKFs) \cup Range(lmQueue)

\* C19 as claimed: every new Frame has an id greater than the Frame created
\* before it, and every new KeyFrame an id greater than the KeyFrame created
\* before it, over all Track calls of a run.
C19_IdsIncreaseAlways ==
  [][/\ obs'.op = "Grab" => mCurrentFrame'.mnId > mCurrentFrame.mnId
     /\ QueueGrew =>
           \A i \in (Len(lmQueue) + 1)..Len(lmQueue') :
             lmQueue'[i].id > InsertedBefore(i).id]_vars

\* C19: between two calls of Reset the ids of new Frames and of new
\* KeyFrames are strictly increasing: each new object takes the value of its
\* counter, above the id of every object made since the last Reset, and the
\* counter goes up by one.  Reset empties the Map and the queue and puts
\* both counters back to 0, so the next Frame and KeyFrame get id 0 again.
C19_IdsIncreaseBetweenResets ==
  [][/\ obs'.op = "Grab" =>
          /\ mCurrentFrame'.mnId = FrameNextId
          /\ FrameNextId' = FrameNextId + 1
     /\ obs'.op # "Grab" => FrameNextId' \in {FrameNextId, 0}
     /\ FrameNextId' < FrameNextId =>
          /\ FrameNextId' = 0
          /\ KeyFrameNextId' = 0
          /\ mapKFs' = <<>>
          /\ lmQueue' = <<>>
     /\ KeyFrameNextId' > KeyFrameNextId =>
          /\ \A k \in LiveKFs : k.id < KeyFrameNextId
          /\ Len(lmQueue') =
               Len(lmQueue) + KeyFrameNextId' - KeyFrameNextId
          /\ \A i \in (Len(lmQueue) + 1)..Len(lmQueue') :
               lmQueue'[i].id = KeyFrameNextId + i - Len(lmQueue) - 1
     /\ KeyFrameNextId' < KeyFrameNextId =>
          /\ KeyFrameNextId' = 0
          /\ FrameNextId' = 0
          /\ mapKFs' = <<>>
          /\ lmQueue' = <<>>
     /\ mapKFs # <<>> /\ mapKFs' = <<>> =>
          /\ KeyFrameNextId' = 0
          /\ FrameNextId' = 0]_vars

\* a new frame got id 0 after a frame with a greater id, and the next
\* keyframe will get id 0 after a keyframe with a greater id
C19_Witness ==
  /\ obs.op = "Grab"
  /\ mCurrentFrame.mnId = 0
  /\ mLastFrame.mnId > 0
  /\ mLastFrame.nth < mCurrentFrame.nth
  /\ mpLastKeyFrame.id > 0
  /\ KeyFrameNextId = 0

----------------------------------------------------------------------------
\* Observation symmetry (under Spec)

\* every map point in a slot of keyframe k records k as an observer
Symmetric(k) == k.uid \notin unlinked

----------------------------------------------------------------------------
\* Map points in the slots of the frames (under Spec)

\* C21: after every Track call, every non-empty slot of the current frame
\* and of the last frame references a MapPoint that is not bad and not
\* replaced; in particular a MapPoint that the Map still holds.
C21_SlotsReferenceLivePoints ==
  trackPC = "idle" /\ obs.op \in BodyOps =>
    /\ mCurrentFrame.inMap > 0 => mapMPs > 0
    /\ mLastFrame.inMap > 0 => mapMPs > 0

----------------------------------------------------------------------------
\* The replacement chase (under SpecChase)

\* C22 as claimed: for every configuration of replacement pointers, chains
\* included, a second CheckReplacedInLastFrame leaves the slots of the last
\* frame as the first one left them.
C22_ChaseIdempotent ==
  obs.op = "CheckReplacedInLastFrame" /\ obs.n >= 2 =>
    mLastFrame.mvpMapPoints = obs.before

\* C22: each CheckReplacedInLastFrame moves every slot one replacement
\* further and no more.  From the second application on it changes a slot
\* exactly when the MapPoint the previous one left there has itself been
\* replaced, so it is idempotent on the configurations without a chain from
\* a slot and only on those.
C22_ChaseOneLink ==
  obs.op = "CheckReplacedInLastFrame" =>
    /\ \A i \in Slots :
         LET pMP == obs.before[i]
         IN mLastFrame.mvpMapPoints[i] =
              IF pMP # NoPoint /\ mpReplaced[pMP] # NoPoint
                THEN mpReplaced[pMP] ELSE pMP
    /\ mLastFrame.mvpMapPoints = obs.before <=>
         \A i \in Slots :
           obs.before[i] = NoPoint \/ mpReplaced[obs.before[i]] = NoPoint

\* a slot that held MapPoint 1, replaced by 2, itself replaced by 3, after
\* the second application: it went from 2 to 3
C22_Witness ==
  /\ obs.op = "CheckReplacedInLastFrame"
  /\ obs.n = 2
  /\ mpReplaced[1] = 2
  /\ mpReplaced[2] = 3
  /\ obs.before[1] = 2
  /\ mLastFrame.mvpMapPoints[1] = 3

----------------------------------------------------------------------------
\* Outliers in the committed frame (under Spec)

\* C23 as claimed: no frame committed as last frame, on the success path or
\* on the failure path, has a keypoint that is flagged outlier and still
\* holds a MapPoint.
C23_NoOutlierSlotCommitted == mLastFrame.out = 0

\* C23: a frame committed as last frame on the success path (mState = OK)
\* has no keypoint that is flagged outlier and still holds a MapPoint.  A
\* frame committed on the failure path after TrackLocalMap failed keeps the
\* MapPoints of the keypoints PoseOptimization flagged.
C23_NoOutlierSlotWhenOk ==
  /\ mState = "OK" => mLastFrame.out = 0
  /\ obs.op = "Track" /\ obs.commit = "OK" =>
       mLastFrame = mCurrentFrame /\ mCurrentFrame.out = 0

\* a frame that passed TrackLocalMap was committed as last frame
C23_Witness ==
  /\ obs.op = "Track"
  /\ obs.commit = "OK"
  /\ obs.lmRan
  /\ mLastFrame = mCurrentFrame
  /\ mLastFrame.inMap >= ThLocalInliers
  /\ mLastFrame.out = 0

----------------------------------------------------------------------------
\* Start of the driver (under SpecMain)

\* the configuration file is missing, or cannot be opened or parsed
BadConfigFile == driver.file.open \in {"closed", "threw"}

\* C24: when the configuration file is missing or cannot be opened or
\* parsed, Config::ReadParameters returns false and the driver exits with a
\* non-zero status, without constructing the system and without processing
\* a frame.
C24_BadConfigRefusesToStart ==
  BadConfigFile =>
    /\ driver.read # "true"
    /\ ~driver.system
    /\ driver.images = 0
    /\ driver.params = Defaults
    /\ driver.pc \in {"args", "read", "exited"}
    /\ driver.pc = "exited" => driver.status # 0

\* the driver was started with a path to a file that could not be parsed and
\* has exited after ReadParameters returned false
C24_Witness ==
  /\ driver.file.open = "threw"
  /\ driver.argc = 2
  /\ driver.read = "false"
  /\ driver.pc = "exited"
  /\ driver.status = 1

----------------------------------------------------------------------------
\* Termination of Track (under SpecLive)

C25_Waiting ==
  /\ trackPC = "lock"
  /\ mapLock = "LocalMapping"

----------------------------------------------------------------------------
\* The retry after the motion model (under Spec)

\* C26: in state OK with the motion-model tracker chosen: when it fails,
\* TrackReferenceKeyFrame runs once on the same frame and the motion model is
\* restarted whatever the retry gives (so a frame lost after the retry leaves
\* the motion model not started); when it succeeds there is no retry and no
\* restart, and a frame tracked to the end leaves the motion model started.
C26_RetryOnceThenRestart ==
  obs.op = "Track" /\ obs.entry = "OK" /\ obs.first = "MotionModel" =>
    /\ obs.started0
    /\ obs.firstOK => /\ obs.refTries = 0 /\ ~obs.retried /\ ~obs.restarted
                      /\ obs.bOKini
                      /\ obs.commit = "OK" => mmStarted
    /\ ~obs.firstOK => /\ obs.refTries = 1 /\ obs.retried /\ obs.restarted
                       /\ obs.commit = "LOST" => ~mmStarted
                       /\ mCurrentFrame.nth = nGrabs

\* the motion model failed, the retry succeeded and the frame was lost in
\* TrackLocalMap, with enough keyframes to stay LOST
C26_Witness ==
  /\ obs.op = "Track" /\ obs.entry = "OK" /\ obs.first = "MotionModel"
  /\ ~obs.firstOK /\ obs.refTries = 1 /\ obs.bOKini
  /\ obs.restarted
  /\ obs.commit = "LOST" /\ ~obs.sysReset
  /\ ~mmStarted

----------------------------------------------------------------------------
\* The scan of Relocalization (under SpecReloc)

\* the candidate at place i passes the three tests
Passes(i) ==
  /\ obs.res[i].align
  /\ obs.res[i].nmatches >= 20
  /\ obs.res[i].nGood >= 10

\* C27: Relocalization visits the keyframes of the Map from the last one
\* inserted to the first, and returns true at the first visited candidate
\* for which the alignment succeeds, the projection gives at least 20
\* matches and the optimization at least 10 inliers; it visits none after
\* it.  mnLastRelocFrameId becomes the id of the current frame exactly when
\* it returns true, and keeps its value when every candidate is rejected.
C27_FirstPassingCandidateFromNewest ==
  obs.op = "Relocalization" =>
    LET n == Len(mapKFs)
        passing == { i \in 1..n : Passes(i) }
    IN /\ obs.ok <=> passing # {}
       /\ obs.ok => /\ obs.cand \in passing
                    /\ \A i \in passing : i <= obs.cand
                    /\ obs.tried = [j \in 1..(n - obs.cand + 1) |-> n - j + 1]
                    /\ mnLastRelocFrameId = obs.frameId
                    /\ mCurrentFrame.mnId = obs.frameId
       /\ ~obs.ok => /\ obs.tried = [j \in 1..n |-> n - j + 1]
                     /\ mnLastRelocFrameId = obs.relocId

\* three keyframes, the newest rejected by the optimization, the middle one
\* accepted, the oldest one good as well and never visited
C27_Witness ==
  /\ obs.op = "Relocalization"
  /\ Len(mapKFs) = 3
  /\ obs.ok /\ obs.cand = 2 /\ obs.tried = <<3, 2>>
  /\ Passes(1) /\ ~Passes(3)
  /\ obs.res[3].align /\ obs.res[3].nmatches = 20 /\ obs.res[3].nGood = 9
  /\ mnLastRelocFrameId = mCurrentFrame.mnId
  /\ obs.relocId # mCurrentFrame.mnId

----------------------------------------------------------------------------
\* TrackReferenceKeyFrame (under SpecRefKF)

\* C28: TrackReferenceKeyFrame searches a second time (against the last
\* frame, from the pose of the last frame) exactly when the first search
\* gives fewer than 20 matches; it returns false when the second search
\* gives fewer than 20 as well (the frame keeps the seed pose); otherwise it
\* returns true exactly when at least 10 matches that are not outliers and
\* have an observation remain after the optimization.  No slot of the frame
\* is left flagged as an outlier: the slots of the outliers are emptied.
C28_ReferenceKeyFrameTracking ==
  obs.op = "TrackReferenceKeyFrame" =>
    LET a == obs.a
        nmatches == IF a.n1 < 20 THEN a.n2 ELSE a.n1
    IN /\ obs.wide <=> a.n1 < 20
       /\ nmatches < 20 => /\ ~obs.ok
                           /\ mCurrentFrame.pose = mLastFrame.pose
       /\ nmatches >= 20 =>
            /\ obs.ok <=> a.inMap >= 10
            /\ mCurrentFrame.inMap + mCurrentFrame.inVO = nmatches - a.out
            /\ mCurrentFrame.inMap = a.inMap
       /\ mCurrentFrame.out = 0

\* the first search gave 19 matches, the wider one 21, of which the
\* optimization kept 10 of the Map and rejected 5
C28_Witness ==
  /\ obs.op = "TrackReferenceKeyFrame"
  /\ obs.a.n1 = 19 /\ obs.a.n2 = 21 /\ obs.a.inMap = 10 /\ obs.a.out = 5
  /\ obs.wide /\ obs.ok
  /\ mCurrentFrame.inMap = 10 /\ mCurrentFrame.inVO = 6
  /\ mCurrentFrame.out = 0

----------------------------------------------------------------------------
\* The test after a relocalization and the busy LocalMapper (under SpecKF)

\* the frame is fewer than MaxFrames ids after the last relocalization
NearReloc == mCurrentFrame.mnId < mnLastRelocFrameId + Fps

\* (c1a or c1b or c1c) and c2
Wanted == (Cond1a \/ Cond1b \/ Cond1c) /\ Cond2

\* the LocalMapper runs and does not accept keyframes
Busy == ~obs.m.idle /\ ~obs.m.stopped /\ ~obs.m.stopReq

\* C29: NeedNewKeyFrame returns false for a frame fewer than MaxFrames ids
\* after the last relocalization when the Map holds more than MaxFrames
\* keyframes; with at most MaxFrames keyframes in the Map such a frame is
\* decided as any other: by the conditions and the state of the LocalMapper.
C29_SuppressionAfterRelocalization ==
  Evaluated /\ NearReloc =>
    /\ Len(mapKFs) > Fps => ~obs.need
    /\ Len(mapKFs) <= Fps /\ ~obs.m.stopped /\ ~obs.m.stopReq =>
         (obs.need <=> /\ Wanted
                       /\ \/ obs.m.idle
                          \/ mSensor = "RGBD" /\ Len(lmQueue) < 3)

\* a frame right after the relocalization got a keyframe with exactly
\* MaxFrames keyframes in the Map
C29_Witness ==
  /\ Evaluated /\ NearReloc
  /\ mCurrentFrame.mnId = mnLastRelocFrameId + Fps - 1
  /\ Len(mapKFs) = Fps
  /\ obs.need

\* C30 as stated: when (c1a or c1b or c1c) and c2 hold and the LocalMapper
\* is busy, InterruptBA is called and the keyframe is admitted only for RGBD
\* with fewer than 3 keyframes queued; InterruptBA is never called when the
\* conditions do not hold or the LocalMapper is idle.
C30_BusyMapperInterrupted ==
  Evaluated =>
    /\ Wanted /\ Busy =>
         /\ obs.interruptBA
         /\ obs.need <=> (mSensor = "RGBD" /\ Len(lmQueue) < 3)
    /\ ~Wanted \/ obs.m.idle => ~obs.interruptBA

\* C30, amended: when admission is not suppressed, (c1a or c1b or c1c) and
\* c2 hold and the LocalMapper is busy, InterruptBA is called and the keyframe
\* is admitted exactly for RGBD with fewer than 3 keyframes queued, never for
\* the other sensors.  InterruptBA is called in no other case: not when
\* admission is suppressed (LocalMapper stopped or stop requested, or a
\* frame fewer than MaxFrames ids after the last relocalization with more
\* than MaxFrames keyframes in the Map), not when the conditions do not
\* hold, not when the LocalMapper is idle.
C30_BusyMapperInterruptedUnlessSuppressed ==
  Evaluated =>
    /\ obs.interruptBA <=> (~Suppressed /\ Wanted /\ Busy)
    /\ ~Suppressed /\ Wanted /\ Busy =>
         (obs.need <=> (mSensor = "RGBD" /\ Len(lmQueue) < 3))
    /\ Busy /\ mSensor # "RGBD" => ~obs.need
    /\ Suppressed => ~obs.need /\ ~obs.interruptBA

\* a busy LocalMapper with 3 keyframes queued was interrupted and got no
\* RGBD keyframe
C30_Witness ==
  /\ Evaluated /\ ~Suppressed /\ Wanted /\ Busy
  /\ mSensor = "RGBD" /\ Len(lmQueue) = 3
  /\ obs.interruptBA
  /\ ~obs.need

----------------------------------------------------------------------------
\* The MapPoints of a new RGBD keyframe (under SpecNewKF)

\* CreateNewKeyFrame ran and SetNotStop(true) was granted
KeyFrameMade == obs.op = "CreateNewKeyFrame" /\ obs.ok

\* depth of the keypoint of slot i
DepthOf(i) == mCurrentFrame.mvDepth[i]

\* keypoint k comes before keypoint i in the order of increasing depth
\* (slot number for equal depths)
ComesBefore(k, i) ==
  DepthOf(k) < DepthOf(i) \/ (DepthOf(k) = DepthOf(i) /\ k < i)

\* place of keypoint i among the keypoints with depth > 0, by depth
PlaceByDepth(i) ==
  1 + Cardinality({ k \in 1..mCurrentFrame.N :
                      DepthOf(k) > 0 /\ ComesBefore(k, i) })

\* the loop reaches keypoint i: it has a depth and no far keypoint at a
\* place beyond 100 comes before it
Reached(i) ==
  /\ DepthOf(i) > 0
  /\ ~\E k \in 1..mCurrentFrame.N :
        /\ DepthOf(k) > mThDepth
        /\ ComesBefore(k, i)
        /\ PlaceByDepth(k) > 100

C34_NotStopReleased ==
  /\ obs.op = "NewMapPoints" =>
       obs.notStop /\ obs.calls = <<"SetNotStop(true)">> /\ lmQueue = <<>>
  /\ obs.op = "CreateNewKeyFrame" =>
       /\ ~obs.notStop
       /\ obs.ok =>
            /\ obs.calls = <<"SetNotStop(true)", "InsertKeyFrame",
                            "SetNotStop(false)">>
            /\ lmQueue = <<mpReferenceKF>>
       /\ ~obs.ok =>
            /\ obs.calls = <<"SetNotStop(true)">>
            /\ lmQueue = <<>>
            /\ mpReferenceKF.uid = 1

\* a keyframe was inserted and the LocalMapper released afterwards
C34_Witness ==
  /\ obs.op = "CreateNewKeyFrame" /\ obs.ok
  /\ Len(obs.calls) = 3 /\ obs.calls[3] = "SetNotStop(false)"
  /\ Len(lmQueue) = 1
  /\ ~obs.notStop

\* C33: while Track runs on a frame, mnLastRelocFrameId is at most the id of
\* that frame, whatever frames, relocalizations and resets came before.
C33_LastRelocNotAhead ==
  trackPC # "idle" => mnLastRelocFrameId <= mCurrentFrame.mnId

\* a Track call on an initialized tracker returns
TrackCallReturns ==
  /\ trackPC = "locked" /\ mState \in {"OK", "LOST"}
  /\ trackPC' = "idle" /\ obs'.op = "Track"

\* C35: a Track call entered in OK or LOST that ends LOST has evaluated no
\* keyframe predicate, made no keyframe, added no MapPoint, queued nothing at
\* the LocalMapper and not started the motion model with the pose of the
\* frame; any Track call on an initialized tracker makes at most one
\* keyframe.
C35_LostFrameLeavesNoTrace ==
  [][TrackCallReturns =>
       /\ obs'.commit = "LOST" =>
            /\ obs'.kf = "None" /\ ~obs'.wanted /\ ~obs'.interruptBA
            /\ KeyFrameNextId' \in {KeyFrameNextId, 0}
            /\ lmQueue' \in {lmQueue, <<>>}
            /\ mapMPs' \in {mapMPs, 0}
            /\ mpLastKeyFrame' = mpLastKeyFrame
            /\ mnLastKeyFrameId' = mnLastKeyFrameId
            /\ mmStarted' => mmStarted
       /\ KeyFrameNextId' <= KeyFrameNextId + 1
       /\ Len(lmQueue') <= Len(lmQueue) + 1]_vars

\* a frame that was tracked up to the local map is lost there, with
\* keyframes waiting in the queue of the LocalMapper and the motion model
\* started
C35_Witness ==
  /\ obs.op = "Track" /\ obs.entry = "OK" /\ obs.commit = "LOST"
  /\ obs.lmRan /\ ~obs.sysReset
  /\ lmQueue # <<>>
  /\ obs.started0

ComputesTcr ==
  /\ trackPC = "locked" /\ trackPC' = "idle"
  /\ IF mState = "NOT_INITIALIZED" THEN mState' = "OK" ELSE ~obs'.sysReset
  /\ mCurrentFrame'.pose # "Zero"

\* the keyframes of a sequence, by the object they are
KeyFrameObjects(kfs) == { kfs[i].uid : i \in 1..Len(kfs) }

LocalKFsUpdated == obs.op = "UpdateLocalKeyFrames" /\ obs.g.V > 0

\* the set holds every voter that is not bad, and no keyframe twice
C32_VotersOnceNoDuplicates ==
  LocalKFsUpdated =>
    /\ \A k \in 1..obs.g.V :
         ~IsBad(obs.g, k) => k \in Range(obs.mvpLocalKeyFrames)
    /\ \A i, j \in 1..Len(obs.mvpLocalKeyFrames) :
         i # j => obs.mvpLocalKeyFrames[i] # obs.mvpLocalKeyFrames[j]

\* a neighbour, a child and the parent of the voter pKF are in the set, as
\* far as pKF has any that could be included
AroundIncluded(pKF) ==
  LET g == obs.g
      in == Range(obs.mvpLocalKeyFrames)
  IN /\ FirstNotIncluded(g, GetBestCovisibilityKeyFrames(g, pKF), {}, TRUE)
          # 0
        => \E n \in Range(GetBestCovisibilityKeyFrames(g, pKF)) :
             ~IsBad(g, n) /\ n \in in
     /\ FirstNotIncluded(g, GetChilds(g, pKF), {}, TRUE) # 0
        => \E c \in Range(GetChilds(g, pKF)) : ~IsBad(g, c) /\ c \in in
     /\ GetParent(g, pKF) # 0 => GetParent(g, pKF) \in in

\* C32: after UpdateLocalKeyFrames with at least one voter the set holds
\* every voter that is not bad once and no keyframe twice; the voters are
\* visited in order while the set has at most 80 members, each visited one
\* getting a neighbour, a child and its parent included, and the additions
\* stop only once the set exceeds 80.
C32_LocalKeyFrames ==
  LocalKFsUpdated =>
    /\ C32_VotersOnceNoDuplicates
    /\ \A p \in 1..(obs.itKF - 1) : AroundIncluded(GoodVoters(obs.g)[p])
    /\ obs.itKF <= obs.itEndKF =>
         Len(obs.mvpLocalKeyFrames) > ThLocalKeyFrames
    /\ Len(obs.mvpLocalKeyFrames) <= ThLocalKeyFrames + 3

\* C38: every image handed to TrackMonocular has one channel, the channels
\* NumChannels gave are those of the image GetImage copied afterwards, and
\* no image received is handed over twice, whenever the images arrive.
C38_OneChannelOnce ==
  obs.op = "main" =>
    /\ \A k \in 1..Len(obs.handed) :
         /\ obs.handed[k].ch = 1
         /\ obs.handed[k].n = obs.handed[k].copied
         /\ obs.handed[k].id \in 1..MaxMessages
    /\ \A k, l \in 1..Len(obs.handed) :
         k # l => obs.handed[k].id # obs.handed[l].id

\* a colour image was converted and handed over and a gray one is about to
\* be copied, while another image has arrived and waits for spinOnce
C38_Witness ==
  /\ obs.op = "main"
  /\ Len(obs.handed) = 1 /\ obs.handed[1].copied = 3
  /\ driver.pc = "GetImage" /\ driver.n = 1
  /\ driver.queue # <<>> /\ driver.queue[1].ch = 3

====
